---- MODULE Spec2Model ----
(***************************************************************************)
(* Visibility / coverage evaluation and viewpoint search of the            *)
(* multi-sensor icosahedron viewer.                                        *)
(*                                                                         *)
(* Real numbers are held in fixed point: a value x is the integer          *)
(* x * Scale.  Vectors are 3-tuples of such integers, matrices 3-tuples    *)
(* of rows.  Python's 0-based indices are kept; a TLA+ sequence holds      *)
(* entry k at position k + 1.                                              *)
(***************************************************************************)
EXTENDS Integers, Sequences, FiniteSets, TLC

\* ------------------------------------------------------------------ bounds
\* fixed-point units per 1.0
Scale == 1000
\* number of distinct generator states the process may start from
NumSeeds == 4
\* the first of the consecutive seed values the generator states are made of;
\* the window holds a seed (64) whose first five children all tie with the
\* initial position, and seeds whose first child already beats it
FirstSeed == 61
\* the latest wall-clock reading, in seconds
MaxClock == 2
\* the largest face index of the score inputs
MaxFace == 2
\* the longest expected-face list of the score inputs
MaxExpectedLen == 2

\* ------------------------------------------------------- program constants
max_iterations == 50
num_candidates_to_keep == 10
children_per_candidate == 5
sphere_radius == 10
fov == 60
sensor_distance == 8
good_threshold == 5

\* ------------------------------------------------------------- arithmetic
\* division truncating toward zero, the sign handled symmetrically
Div(a, b) == IF a >= 0 THEN a \div b ELSE -((-a) \div b)

RECURSIVE ISqrtIter(_, _)
ISqrtIter(n, x) ==
    IF (x + n \div x) \div 2 >= x THEN x ELSE ISqrtIter(n, (x + n \div x) \div 2)

\* np.sqrt on a fixed-point square: floor of the square root
ISqrt(n) == IF n <= 0 THEN 0 ELSE ISqrtIter(n, n)

Sub(u, v) == <<u[1] - v[1], u[2] - v[2], u[3] - v[3]>>
Neg(u) == <<-u[1], -u[2], -u[3]>>

\* np.dot of two raw integer vectors (no rescaling)
Dot(u, v) == u[1] * v[1] + u[2] * v[2] + u[3] * v[3]

\* np.linalg.norm of a fixed-point vector, in fixed point
Norm(u) == ISqrt(Dot(u, u))

\* u / s for a fixed-point scalar s
DivScalar(u, s) == <<Div(u[1] * Scale, s), Div(u[2] * Scale, s), Div(u[3] * Scale, s)>>

\* ------------------------------------------------ numpy float64 results
Finite(x) == [kind |-> "finite", value |-> x]
PlusInf == [kind |-> "inf", value |-> 0]
MinusInf == [kind |-> "-inf", value |-> 0]
NaN == [kind |-> "nan", value |-> 0]

\* a vector whose components are all nan: it has no fixed-point components
NaNVector == <<>>
IsNaNVector(u) == Len(u) = 0

\* u / n: 0 / 0 gives nan in every component and a RuntimeWarning, never an
\* exception (a vector of norm 0 is the zero vector)
NormalizeBy(u, n) == IF n = 0 THEN NaNVector ELSE DivScalar(u, n)

\* u / np.linalg.norm(u)
Normalize(u) == NormalizeBy(u, Norm(u))

\* np.dot of two float vectors: nan as soon as one of them holds nan
NumpyDot(u, v) == IF IsNaNVector(u) \/ IsNaNVector(v) THEN NaN ELSE Finite(Dot(u, v))

\* `x > 0` for a float: every comparison with nan is False
IsPositive(x) == x.kind = "finite" /\ x.value > 0

\* np.cross of two fixed-point vectors, in fixed point
Cross(u, v) ==
    <<Div(u[2] * v[3] - u[3] * v[2], Scale),
      Div(u[3] * v[1] - u[1] * v[3], Scale),
      Div(u[1] * v[2] - u[2] * v[1], Scale)>>

\* ------------------------------------------------------------------- mesh
\* golden ratio (1 + sqrt 5) / 2
phi == (Scale + ISqrt(5 * Scale * Scale)) \div 2

\* the twelve corner points of three golden rectangles with sides 2a and 2b
GoldenRectangles(a, b) ==
    << <<-a, b, 0>>, <<a, b, 0>>, <<-a, -b, 0>>, <<a, -b, 0>>,
       <<0, -a, b>>, <<0, a, b>>, <<0, -a, -b>>, <<0, a, -b>>,
       <<b, 0, -a>>, <<b, 0, a>>, <<-b, 0, -a>>, <<-b, 0, a>> >>

\* vertices *= factor
ScaleVertices(raw, factor) ==
    [k \in 1..Len(raw) |->
        <<Div(raw[k][1] * factor, Scale), Div(raw[k][2] * factor, Scale),
          Div(raw[k][3] * factor, Scale)>>]

\* vertices *= 5 / np.linalg.norm(vertices[0])
ScaleToRadius5(raw) == ScaleVertices(raw, Div(5 * Scale * Scale, Norm(raw[1])))

\* the vertex array of get_icosahedron; entry k+1 is vertex k
Vertices == ScaleToRadius5(GoldenRectangles(Scale, phi))

\* a face table whose last face names corner 0 where the mesh has corner 1:
\* the surface it describes is not closed
FacesWithWrongCorner ==
    << <<0, 11, 5>>, <<0, 5, 1>>, <<0, 1, 7>>, <<0, 7, 10>>, <<0, 10, 11>>,
       <<1, 5, 9>>, <<5, 11, 4>>, <<11, 10, 2>>, <<10, 7, 6>>, <<7, 1, 8>>,
       <<3, 9, 4>>, <<3, 4, 2>>, <<3, 2, 6>>, <<3, 6, 8>>, <<3, 8, 9>>,
       <<4, 9, 5>>, <<2, 4, 11>>, <<6, 2, 10>>, <<8, 6, 7>>, <<9, 8, 0>> >>

\* a face table whose last face is listed in the opposite rotational order:
\* the surface is closed, the winding is not consistent
FacesWithOneFaceFlipped ==
    << <<0, 11, 5>>, <<0, 5, 1>>, <<0, 1, 7>>, <<0, 7, 10>>, <<0, 10, 11>>,
       <<1, 5, 9>>, <<5, 11, 4>>, <<11, 10, 2>>, <<10, 7, 6>>, <<7, 1, 8>>,
       <<3, 9, 4>>, <<3, 4, 2>>, <<3, 2, 6>>, <<3, 6, 8>>, <<3, 8, 9>>,
       <<4, 9, 5>>, <<2, 4, 11>>, <<6, 2, 10>>, <<8, 6, 7>>, <<9, 1, 8>> >>

\* the face index table; entry f+1 is face f, holding 0-based vertex indices
Faces ==
    << <<0, 11, 5>>, <<0, 5, 1>>, <<0, 1, 7>>, <<0, 7, 10>>, <<0, 10, 11>>,
       <<1, 5, 9>>, <<5, 11, 4>>, <<11, 10, 2>>, <<10, 7, 6>>, <<7, 1, 8>>,
       <<3, 9, 4>>, <<3, 4, 2>>, <<3, 2, 6>>, <<3, 6, 8>>, <<3, 8, 9>>,
       <<4, 9, 5>>, <<2, 4, 11>>, <<6, 2, 10>>, <<8, 6, 7>>, <<9, 8, 1>> >>

\* get_icosahedron: the (vertices, faces) pair
get_icosahedron == [vertices |-> Vertices, faces |-> Faces]

NumFaces == Len(Faces)
FaceIdx == 0..(NumFaces - 1)

\* vertices[face]: the three corner points of a face
Corners(vertices, face) == <<vertices[face[1] + 1], vertices[face[2] + 1], vertices[face[3] + 1]>>

\* np.mean(face_vertices, axis=0)
Mean3(fv) ==
    <<Div(fv[1][1] + fv[2][1] + fv[3][1], 3),
      Div(fv[1][2] + fv[2][2] + fv[3][2], 3),
      Div(fv[1][3] + fv[2][3] + fv[3][3], 3)>>

\* calculate_face_normal: cross(v2 - v1, v3 - v1) / norm
calculate_face_normal(fv) == Normalize(Cross(Sub(fv[2], fv[1]), Sub(fv[3], fv[1])))

\* the unit normal and the centre of every face of the mesh
FaceNormal == [f \in FaceIdx |-> calculate_face_normal(Corners(Vertices, Faces[f + 1]))]
FaceCenters == [f \in FaceIdx |-> Mean3(Corners(Vertices, Faces[f + 1]))]

\* dot_product of one face: np.dot(face_normal, view_vector) after
\* view_vector /= np.linalg.norm(view_vector)
BackFaceDot(sensor_position, f) ==
    NumpyDot(FaceNormal[f], Normalize(Sub(sensor_position, FaceCenters[f])))

\* the back-face test with the comparison turned around
BackFaceTurnedAway(sensor_position, f) == ~IsPositive(BackFaceDot(sensor_position, f))

\* back-face test of one face: dot(face_normal, normalized(sensor - center)) > 0
BackFaceVisible(sensor_position, f) == IsPositive(BackFaceDot(sensor_position, f))

\* evaluate_visible_faces: the number of faces passing the back-face test
evaluate_visible_faces(sensor_position) ==
    Cardinality({f \in FaceIdx : BackFaceVisible(sensor_position, f)})

\* -------------------------------------------------------------- generator
\* np.random is the process-global generator; it is modelled as a 16-bit
\* linear congruential generator whose seed comes from the operating system
RngModulus == 65536

\* one step of the generator
RngNext(s) == (s * 25173 + 13849) % RngModulus

\* one np.random.uniform(-1, 1) sample read off generator state s, in fixed point
Uniform(s) == Div(((s % 21) - 10) * Scale, 10)

\* np.random.uniform(-1, 1, 3) drawn from state s: three successive samples
UniformVec(s) ==
    <<Uniform(RngNext(s)), Uniform(RngNext(RngNext(s))), Uniform(RngNext(RngNext(RngNext(s))))>>

\* the generator state after np.random.uniform(-1, 1, 3)
RngAfterVec(s) == RngNext(RngNext(RngNext(s)))

\* the states a freshly started process may find its generator in
SeedStates == {RngNext(k) : k \in FirstSeed..(FirstSeed + NumSeeds - 1)}

\* a generator that is not created anew: its state carries over from the
\* earlier run and the seed is only mixed into it
CarryOver(old_state, seed_value) == (old_state + seed_value) % RngModulus

\* a process start: the module-level generator is created anew from the seed,
\* whatever state the generator of an earlier process was left in
Reseed(old_state, seed_value) == seed_value

\* ------------------------------------------------------- viewpoint search
VARIABLES
    pc,                   \* position of the viewer process
    rng,                  \* state of the process-global random generator
    iteration,            \* number of completed passes of `for iteration in range(max_iterations)`
    candidate_positions,  \* the pool: sequence of candidates
    new_positions,        \* children generated so far in this iteration
    parent_idx,           \* index of the pool entry whose children are being generated
    child_idx,            \* number of children already generated for that entry
    best_position,        \* the value returned by select_best_viewpoint
    created,              \* history: number of candidates evaluated so far in this run
    dropped,              \* history: candidates cut off by the latest truncation
    first_best,           \* history: the first candidate evaluated with the highest count so far
    seed,                 \* history: the generator state this run started from
    prev_seed,            \* history: the generator state the previous run started from
    prev_result           \* history: the position returned by the previous run of the program

searchVars == <<pc, rng, iteration, candidate_positions, new_positions, parent_idx,
                child_idx, best_position, created, dropped, first_best, seed, prev_seed,
                prev_result>>

NoPosition == <<0, 0, 0>>

\* initial_position = np.array([10.0, 0.0, 0.0])
initial_position == <<sphere_radius * Scale, 0, 0>>

\* step_size = 1.0
step_size == Scale

\* a pool entry (position, visible_faces); born is the order of evaluation
Candidate(position, count, born) ==
    [position |-> position, visible_faces |-> count, born |-> born]

NoCandidate == Candidate(NoPosition, -1, -1)

\* u * k for an integer k
ScaleBy(u, k) == <<u[1] * k, u[2] * k, u[3] * k>>

\* new_position / np.linalg.norm(new_position) * 10
ProjectOntoSphere(p) == ScaleBy(Normalize(p), sphere_radius)

\* position + random_adjustment * step_size
AddScaled(position, adjustment, step) ==
    <<position[1] + Div(adjustment[1] * step, Scale),
      position[2] + Div(adjustment[2] * step, Scale),
      position[3] + Div(adjustment[3] * step, Scale)>>

\* a perturbation that is not projected back onto the sphere
PerturbWithoutProjection(position, random_adjustment) ==
    AddScaled(position, random_adjustment, step_size)

\* the perturbed position, projected onto the sphere
Perturb(position, random_adjustment) ==
    ProjectOntoSphere(AddScaled(position, random_adjustment, step_size))

Reversed(seq) == [i \in 1..Len(seq) |-> seq[Len(seq) + 1 - i]]

\* the candidates with count c, the latest first
WithCountReversed(cands, c) ==
    Reversed(SelectSeq(cands, LAMBDA x : x.visible_faces = c))

\* the candidates with count c, in their incoming order
WithCount(cands, c) == SelectSeq(cands, LAMBDA x : x.visible_faces = c)

\* the candidates with a count of c or less: the higher count first, equal
\* counts in their incoming order
RECURSIVE BucketsFrom(_, _)
BucketsFrom(cands, c) ==
    IF c < 0 THEN <<>> ELSE WithCount(cands, c) \o BucketsFrom(cands, c - 1)

\* the sort without reverse=True: ascending by visible-face count
SortAscending(cands) == Reversed(BucketsFrom(cands, NumFaces))

\* sorted(..., key=lambda x: x[1], reverse=True): Python's sort is stable, so
\* the result is the candidates by descending count (a count is 0..20), those
\* with equal counts in their incoming order
SortByVisibleFaces(cands) == BucketsFrom(cands, NumFaces)

\* the length of cands[:n + 1]
SliceLenPlusOne(len, n) == IF len < n + 1 THEN len ELSE n + 1

\* the length of cands[:n]
SliceLen(len, n) == IF len < n THEN len ELSE n

\* a slice that keeps the tail of the sorted pool, candidates[-N:]
KeepTail(cands) ==
    SubSeq(cands, Len(cands) - SliceLen(Len(cands), num_candidates_to_keep) + 1, Len(cands))

\* candidate_positions[:num_candidates_to_keep]
Truncate(cands) == SubSeq(cands, 1, SliceLen(Len(cands), num_candidates_to_keep))

\* what the slice leaves out
CutOff(cands) == SubSeq(cands, SliceLen(Len(cands), num_candidates_to_keep) + 1, Len(cands))

\* a loop that gives up one iteration before the budget is used
LoopStopsEarly(completed) == completed < max_iterations - 1

\* `for iteration in range(max_iterations)`: whether the loop runs again after
\* `completed` iterations
LoopRunsAgain(completed) == completed < max_iterations

\* an inner loop that stops one child short
InnerLoopEndsOneShort(made) == made + 1 >= children_per_candidate

\* `for _ in range(5)`: whether the inner loop ends after `made` children
InnerLoopEnds(made) == made >= children_per_candidate

\* the earliest candidate holding the highest count seen so far
FirstBest(old, child) == IF child.visible_faces > old.visible_faces THEN child ELSE old

\* ----------------------------------------------------------- trigonometry
\* fixed-point product
Mul(a, b) == Div(a * b, Scale)

\* np.radians of an angle in [0, 90] degrees (fixed point in, fixed point out)
Radians(a) == Div(a * 17453, 1000000)

\* x (1 - x^2/6 (1 - x^2/20 (1 - x^2/42))): the sine series through x^7
SinSeries(x, x2) ==
    Mul(x, Scale - Mul(Div(x2, 6), Scale - Mul(Div(x2, 20), Scale - Div(x2, 42))))

Clamp(v, lo, hi) == IF v < lo THEN lo ELSE IF v > hi THEN hi ELSE v

SinOfRadians(x) == SinSeries(x, Mul(x, x))

\* sine of an angle in [0, 90] degrees
SinQuadrant(a) == Clamp(SinOfRadians(Radians(a)), 0, Scale)

\* an angle reduced to [0, full)
ReduceAngle(a, full) == ((a % full) + full) % full

\* cosine of an angle r in [0, 360) degrees, by quadrant
CosReduced(r) ==
    IF r <= 90 * Scale THEN SinQuadrant(90 * Scale - r)
    ELSE IF r <= 180 * Scale THEN -SinQuadrant(r - 90 * Scale)
    ELSE IF r <= 270 * Scale THEN -SinQuadrant(270 * Scale - r)
    ELSE SinQuadrant(r - 270 * Scale)

\* np.cos(np.radians(a)) for any angle a in degrees
CosDeg(a) == CosReduced(ReduceAngle(a, 360 * Scale))

\* np.sin(np.radians(a))
SinDeg(a) == CosDeg(a - 90 * Scale)

\* np.clip(x, -1.0, 1.0)
Clip(x) == Clamp(x, -Scale, Scale)

RECURSIVE ArcCosBisect(_, _, _)
ArcCosBisect(lo, hi, c) ==
    IF hi - lo <= 1 THEN hi
    ELSE IF CosDeg((lo + hi) \div 2) <= c
         THEN ArcCosBisect(lo, (lo + hi) \div 2, c)
         ELSE ArcCosBisect((lo + hi) \div 2, hi, c)

\* np.degrees(np.arccos(c)) for c in [-1, 1]: the angle in [0, 180] degrees
ArcCosDeg(c) == IF c >= Scale THEN 0 ELSE ArcCosBisect(0, 180 * Scale, c)

\* calculate_angle: arccos of the clipped dot product of two unit vectors, in degrees
calculate_angle(vec1, vec2) == ArcCosDeg(Clip(Div(Dot(vec1, vec2), Scale)))

RotX(c, s) == << <<Scale, 0, 0>>, <<0, c, -s>>, <<0, s, c>> >>
RotY(c, s) == << <<c, 0, s>>, <<0, Scale, 0>>, <<-s, 0, c>> >>

rotation_matrix_x(theta) == RotX(CosDeg(theta), SinDeg(theta))
rotation_matrix_y(theta) == RotY(CosDeg(theta), SinDeg(theta))

\* A @ v for a 3x3 matrix and a vector
MatVec(A, v) == <<Div(Dot(A[1], v), Scale), Div(Dot(A[2], v), Scale), Div(Dot(A[3], v), Scale)>>

\* A @ B for 3x3 matrices
MatMul(A, B) ==
    [i \in 1..3 |-> [j \in 1..3 |->
        Div(A[i][1] * B[1][j] + A[i][2] * B[2][j] + A[i][3] * B[3][j], Scale)]]

\* the sign of y applied to a non-negative angle
WithSignOf(y, a) == IF y >= 0 THEN a ELSE -a

\* the angle of the point (x, y) at distance r from the origin
ArcTan2OfRadius(y, x, r) ==
    IF r = 0 THEN 0 ELSE WithSignOf(y, ArcCosDeg(Clip(Div(x * Scale, r))))

\* np.degrees(np.arctan2(y, x)), in (-180, 180]
ArcTan2Deg(y, x) == ArcTan2OfRadius(y, x, ISqrt(x * x + y * y))

\* rotation_matrix_to_euler_angles: (alpha, beta, theta) in degrees
rotation_matrix_to_euler_angles(R) ==
    <<ArcTan2Deg(R[3][2], R[3][3]),
      ArcTan2Deg(-R[3][1], ISqrt(R[3][2] * R[3][2] + R[3][3] * R[3][3])),
      ArcTan2Deg(R[2][1], R[1][1])>>

\* ------------------------------------------------ score inputs and outputs
VARIABLES
    sc_actual,        \* a set of actually visible (or detected) faces
    sc_expected_map,  \* a map from keys to lists of expected faces
    sc_key,           \* the key looked up in the map
    sc_score,         \* the coverage score of update_scene, once computed
    sc_accuracy       \* the accuracy of the distance report, once computed

scoreVars == <<sc_actual, sc_expected_map, sc_key, sc_score, sc_accuracy>>

\* set(some_list)
ToSet(list) == {list[i] : i \in 1..Len(list)}

\* dict.get(key, [])
DictGet(map, key) == IF key \in DOMAIN map THEN map[key] ELSE <<>>

\* max(a, b)
Max(a, b) == IF a > b THEN a ELSE b

\* len(expected_faces), without the guard
PlainLength(expected_faces) == Cardinality(expected_faces)

\* max(len(expected_faces), 1)
ScoreDenominator(expected_faces) == Max(Cardinality(expected_faces), 1)

\* the outcome of a Python division by zero: the exception, no value
ZeroDivisionError == [raised |-> TRUE, value |-> 0]

\* n / d for two Python ints: the quotient, or the exception when d is 0
TrueDivide(n, d) ==
    IF d = 0 THEN ZeroDivisionError ELSE [raised |-> FALSE, value |-> Div(n * Scale, d)]

\* the number of matched faces, not divided by anything
CountMatches(actual_faces, expected_faces) ==
    [raised |-> FALSE, value |-> Cardinality(actual_faces \cap expected_faces) * Scale]

\* the matched faces as a share of the actual faces, not of the expected ones
ShareOfActual(actual_faces, expected_faces) ==
    TrueDivide(Cardinality(actual_faces \cap expected_faces), Max(Cardinality(actual_faces), 1))

\* len(actual & expected) / max(len(expected), 1)
ScoreOfSets(actual_faces, expected_faces) ==
    TrueDivide(Cardinality(actual_faces \cap expected_faces), ScoreDenominator(expected_faces))

\* score = len(actual_faces & expected_faces) / max(len(expected_faces), 1)
\* with expected_faces = set(expected_map.get(key, []))
CoverageScore(actual_faces, expected_map, key) ==
    ScoreOfSets(actual_faces, ToSet(DictGet(expected_map, key)))

\* accuracy = len(detected_faces & expected_faces) / max(len(expected_faces), 1)
\* with expected_faces = set(expected_visible_faces.get(sensor, []))
accuracy(detected_faces, expected_map, sensor) ==
    ScoreOfSets(detected_faces, ToSet(DictGet(expected_map, sensor)))

\* no outcome yet
NotComputed == [raised |-> FALSE, value |-> -Scale]

\* --------------------------------------------------------------- the rig
\* the six axis points at distance d
AxisPoints(d) ==
    << <<d, 0, 0>>, <<-d, 0, 0>>, <<0, d, 0>>, <<0, -d, 0>>, <<0, 0, d>>, <<0, 0, -d>> >>

\* get_sensor_positions; entry k+1 is sensor k
get_sensor_positions == AxisPoints(sensor_distance * Scale)

NumSensors == Len(get_sensor_positions)
SensorIdx == 0..(NumSensors - 1)

\* get_calibration_object_rotation at clock reading t (seconds):
\* Rx(20 t mod 360) @ Ry(30 t mod 360)
get_calibration_object_rotation(t) ==
    MatMul(rotation_matrix_x(((t * 20) % 360) * Scale),
           rotation_matrix_y(((t * 30) % 360) * Scale))

\* `if angle < fov / 2`: append (idx, distance, angle), or nothing
ConeAppend(idx, distance, angle) ==
    IF angle * 2 < fov * Scale
    THEN <<[face |-> idx, distance |-> distance, angle |-> angle]>>
    ELSE <<>>

\* the test of one face seen along the normalised view_vector: a nan
\* view_vector makes the angle nan, and `nan < fov / 2` is False
ConeViewAlong(idx, distance, view_vector, rotated_view) ==
    IF IsNaNVector(view_vector) THEN <<>>
    ELSE ConeAppend(idx, distance, calculate_angle(view_vector, rotated_view))

\* the test of one face whose centre lies at offset `view` from the sensor
ConeView(idx, view, rotated_view) ==
    ConeViewAlong(idx, Norm(view), Normalize(view), rotated_view)

\* one face in the loop of get_sensor_rotation: the record it appends, or none
ConeRecord(sensor_position, rotated_view, idx) ==
    ConeView(idx, Sub(FaceCenters[idx], sensor_position), rotated_view)

\* the faces visited from the last index down to idx
RECURSIVE ConeRecordsReversed(_, _, _)
ConeRecordsReversed(sensor_position, rotated_view, idx) ==
    IF idx >= NumFaces THEN <<>>
    ELSE ConeRecordsReversed(sensor_position, rotated_view, idx + 1)
             \o ConeRecord(sensor_position, rotated_view, idx)

\* `for idx, face in enumerate(faces)`: the records appended from face idx on
RECURSIVE ConeRecordsFrom(_, _, _)
ConeRecordsFrom(sensor_position, rotated_view, idx) ==
    IF idx >= NumFaces THEN <<>>
    ELSE ConeRecord(sensor_position, rotated_view, idx)
             \o ConeRecordsFrom(sensor_position, rotated_view, idx + 1)

\* a return value whose counter was also advanced for the faces outside the cone
RotationResultCountingAll(object_rot, best_data) ==
    [object_rot |-> object_rot, max_visible |-> NumFaces, best_data |-> best_data]

\* the return value of get_sensor_rotation: max_visible is counted once per
\* appended record
RotationResult(object_rot, best_data) ==
    [object_rot |-> object_rot, max_visible |-> Len(best_data), best_data |-> best_data]

\* get_sensor_rotation for a sensor at sensor_position under rotation object_rot
SensorRotationAt(sensor_position, object_rot) ==
    RotationResult(object_rot,
        ConeRecordsFrom(sensor_position,
                        MatVec(object_rot, Normalize(Neg(sensor_position))), 0))

\* get_sensor_rotation(sensor_idx) at clock reading t
get_sensor_rotation(s, t) ==
    SensorRotationAt(get_sensor_positions[s + 1], get_calibration_object_rotation(t))

\* self.expected_visible_faces
expected_visible_faces ==
    (0 :> <<0, 1, 5>>) @@ (1 :> <<3, 4, 10>>) @@ (2 :> <<6, 7, 8>>) @@
    (3 :> <<9, 10, 11>>) @@ (4 :> <<12, 13, 14>>) @@ (5 :> <<15, 16, 17>>)

\* a status that asks for two faces more than the threshold
StatusAtLeastSeven(visible_count) ==
    IF visible_count >= good_threshold + 2 THEN "GOOD" ELSE "BAD"

\* status = "GOOD" if visible_count >= 5 else "BAD"
StatusOf(visible_count) == IF visible_count >= good_threshold THEN "GOOD" ELSE "BAD"

\* a non-negative fixed-point value times 10^digits, rounded half up
RoundTo(x, unit) == (x * unit + Scale \div 2) \div Scale

\* f"{x:.2f}": the value in hundredths
Fmt2(x) == IF x >= 0 THEN RoundTo(x, 100) ELSE -RoundTo(-x, 100)

\* f"{x:.1f}": the value in tenths
Fmt1(x) == IF x >= 0 THEN RoundTo(x, 10) ELSE -RoundTo(-x, 10)

csv_header ==
    <<"Sensor", "Pose", "Face", "Distance", "Angle", "Alpha", "Beta", "Theta", "Status", "Score">>

\* the row update_scene appends to csv_data for one visible face
CsvRow(s, sensor_position, rec, euler, status, score) ==
    <<s + 1,
      <<Fmt1(sensor_position[1]), Fmt1(sensor_position[2]), Fmt1(sensor_position[3])>>,
      rec.face, Fmt2(rec.distance), Fmt2(rec.angle),
      Fmt2(euler[1]), Fmt2(euler[2]), Fmt2(euler[3]), status, Fmt2(score.value)>>

\* [f[0] for f in face_data]
FaceColumn(face_data) == [i \in 1..Len(face_data) |-> face_data[i].face]
DistanceColumn(face_data) == [i \in 1..Len(face_data) |-> face_data[i].distance]
AngleColumn(face_data) == [i \in 1..Len(face_data) |-> face_data[i].angle]

\* what the loop body derives from the result r of get_sensor_rotation(s)
PassOfResult(s, r) ==
    [face_data |-> r.best_data,
     visible_count |-> r.max_visible,
     euler |-> rotation_matrix_to_euler_angles(r.object_rot),
     status |-> StatusOf(r.max_visible),
     score |-> CoverageScore(ToSet(FaceColumn(r.best_data)), expected_visible_faces, s)]

\* everything one pass of the per-sensor loop body computes for sensor s at
\* clock reading t
SensorPass(s, t) == PassOfResult(s, get_sensor_rotation(s, t))

\* a loop that skips the first visible face of every sensor
CsvRowsButFirst(s, sensor_position, p) ==
    [i \in 1..(Len(p.face_data) - 1) |->
        CsvRow(s, sensor_position, p.face_data[i + 1], p.euler, p.status, p.score)]

\* the rows appended to csv_data for sensor s
CsvRows(s, sensor_position, p) ==
    [i \in 1..Len(p.face_data) |->
        CsvRow(s, sensor_position, p.face_data[i], p.euler, p.status, p.score)]

VARIABLES
    now,              \* the wall clock, whole seconds
    updating,         \* self._updating
    scene_pc,         \* position inside update_scene: "idle", "sensors", "publish"
    sensor_idx,       \* loop variable of the per-sensor loop
    mesh,             \* vertices, faces obtained by this pass
    visible_counts,   \* history: visible_count of each sensor handled in this pass
    sensor_face_data, \* history: face_data of each sensor handled in this pass
    orientations,     \* per sensor (alpha, beta, theta)
    sensor_status,    \* per sensor "GOOD" / "BAD"
    scores,           \* per sensor coverage score
    visible_faces,    \* flat list of visible face indices
    distances,        \* flat list of distances
    angles,           \* flat list of angles
    sensor_indices,   \* flat list: the sensor of each flat entry
    csv_data,         \* rows collected by this pass
    csv_file,         \* content of visibility_results.csv; <<>> while it does not exist
    prev_csv_file,    \* history: the content the last write replaced
    returned_early,   \* history: a call has returned at the flag test during this pass
    last_exit         \* history: how the body entered last has ended: "none", "normal", "exception"

rigVars == <<now, updating, scene_pc, sensor_idx, mesh, visible_counts, sensor_face_data,
             orientations, sensor_status, scores, visible_faces, distances, angles,
             sensor_indices, csv_data, csv_file, prev_csv_file, returned_early, last_exit>>

NoMesh == [vertices |-> <<>>, faces |-> <<>>]

\* a file opened in mode 'a': the rows already in the file stay
AppendToCsv(data) == csv_file \o <<csv_header>> \o data

\* write_to_csv: the file is opened in mode 'w', so it holds the header and data only
write_to_csv(data) == <<csv_header>> \o data

\* ------------------------------------------- functions called on their own
VARIABLES
    call,      \* the function called and its arguments
    outcome    \* what the call produced; NotCalled before the call is made

callVars == <<call, outcome>>

NoCall == [fn |-> "none"]
NotCalled == [done |-> FALSE]

\* n / d for a positive numpy float n: a zero divisor gives inf and a
\* RuntimeWarning, never an exception
NumpyDivide(n, d) == IF d = 0 THEN PlusInf ELSE Finite(Div(n * Scale, d))

\* ------------------------------------------ evaluate_coverage_view_plan
\* unique_visible_faces after the update loop has handled sensors i..
RECURSIVE UniqueVisibleFrom(_, _)
UniqueVisibleFrom(faces_per_sensor, i) ==
    IF i > Len(faces_per_sensor) THEN {}
    ELSE ToSet(faces_per_sensor[i]) \cup UniqueVisibleFrom(faces_per_sensor, i + 1)

\* a count that takes a face once for every sensor seeing it
RECURSIVE CountWithRepeats(_, _)
CountWithRepeats(faces_per_sensor, i) ==
    IF i > Len(faces_per_sensor) THEN 0
    ELSE Cardinality(ToSet(faces_per_sensor[i])) + CountWithRepeats(faces_per_sensor, i + 1)

\* len(unique_visible_faces)
UniqueCount(faces_per_sensor, i) == Cardinality(UniqueVisibleFrom(faces_per_sensor, i))

\* np.sum of a list of finite numbers
RECURSIVE SumFrom(_, _)
SumFrom(xs, i) == IF i > Len(xs) THEN 0 ELSE xs[i] + SumFrom(xs, i + 1)

\* 1 / (1 + np.cos(np.radians(angle)))
AnglePenaltyTerm(angle) == NumpyDivide(Scale, Scale + CosDeg(angle))

AnglePenaltyTerms(angle_list) == [i \in 1..Len(angle_list) |-> AnglePenaltyTerm(angle_list[i])]

TermValues(terms) == [i \in 1..Len(terms) |-> terms[i].value]

\* np.sum of the terms: inf as soon as one term is inf
SumOfTerms(terms) ==
    IF \E i \in 1..Len(terms) : terms[i].kind = "inf" THEN PlusInf
    ELSE Finite(SumFrom(TermValues(terms), 1))

\* an inner loop that starts at i itself
InnerStartAtSelf(i) == i

\* range(i + 1, len(faces_per_sensor)): the first j of the inner loop
InnerStart(i) == i + 1

\* the inner loop over j, from j on, for a fixed i
RECURSIVE OverlapInner(_, _, _)
OverlapInner(faces_per_sensor, i, j) ==
    IF j > Len(faces_per_sensor) THEN 0
    ELSE Cardinality(ToSet(faces_per_sensor[i]) \cap ToSet(faces_per_sensor[j]))
         + OverlapInner(faces_per_sensor, i, j + 1)

\* the outer loop over i, from i on
RECURSIVE OverlapOuter(_, _)
OverlapOuter(faces_per_sensor, i) ==
    IF i > Len(faces_per_sensor) THEN 0
    ELSE OverlapInner(faces_per_sensor, i, InnerStart(i)) + OverlapOuter(faces_per_sensor, i + 1)

\* coverage_score - (total_distance / 100) - angle_penalty - (overlap_penalty / 10)
ObjectiveValue(coverage_score, total_distance, angle_penalty, overlap_penalty) ==
    IF angle_penalty.kind = "inf" THEN MinusInf
    ELSE Finite(coverage_score - Div(total_distance, 100) - angle_penalty.value
                - Div(overlap_penalty * Scale, 10))

\* the function body after coverage_score: a ZeroDivisionError there ends the call
ObjectiveOf(coverage, total_distance, angle_penalty, overlap_penalty) ==
    IF coverage.raised
    THEN [done |-> TRUE, raised |-> TRUE]
    ELSE [done |-> TRUE, raised |-> FALSE,
          coverage_score |-> coverage.value,
          total_distance |-> total_distance,
          angle_penalty |-> angle_penalty,
          overlap_penalty |-> overlap_penalty,
          objective_value |-> ObjectiveValue(coverage.value, total_distance,
                                             angle_penalty, overlap_penalty)]

\* evaluate_coverage_view_plan; sensors_positions is not read by the body
evaluate_coverage_view_plan(faces_per_sensor, obj_distances, obj_angles, total_faces) ==
    ObjectiveOf(TrueDivide(UniqueCount(faces_per_sensor, 1), total_faces),
                SumFrom(obj_distances, 1),
                SumOfTerms(AnglePenaltyTerms(obj_angles)),
                OverlapOuter(faces_per_sensor, 1))

\* ------------------------------------------------- get_sensor_rotation
RotZ(c, s) == << <<c, -s, 0>>, <<s, c, 0>>, <<0, 0, Scale>> >>

rotation_matrix_z(theta) == RotZ(CosDeg(theta), SinDeg(theta))

\* np.eye(3)
Identity3 == << <<Scale, 0, 0>>, <<0, Scale, 0>>, <<0, 0, Scale>> >>

\* a call that returns a rotation matrix
Returned(matrix) == [done |-> TRUE, raised |-> FALSE, error |-> "none", matrix |-> matrix]

\* a call that ends in an exception
Raised(error) == [done |-> TRUE, raised |-> TRUE, error |-> error]

\* OptimizedSensorRotation.z_rotations, whole degrees
z_rotations == <<30, 60, 90, 120, 150, 180>>

\* OptimizedSensorRotation.rotation_matrices[idx]: a dict keyed 0..5,
\* so a key outside it is a KeyError
PrecomputedRotation(idx) ==
    IF idx \in 0..(Len(z_rotations) - 1)
    THEN Returned(MatMul(rotation_matrix_x(42 * Scale),
                         rotation_matrix_z(z_rotations[idx + 1] * Scale)))
    ELSE Raised("KeyError")

\* OptimizedSensorRotation.get_sensor_rotation
OptimizedSensorRotation_get_sensor_rotation(idx) ==
    IF idx = 0 THEN Returned(Identity3)
    ELSE IF idx < Len(z_rotations) THEN PrecomputedRotation(idx)
    ELSE Raised("ValueError")

\* SensorRotation.z_rotations.get(idx, np.eye(3)): all six angle_list are 0
ZRotationOrIdentity(idx) ==
    IF idx \in 0..5 THEN rotation_matrix_z(0) ELSE Identity3

\* SensorRotation.get_sensor_rotation
SensorRotation_get_sensor_rotation(idx) ==
    Returned(MatMul(rotation_matrix_x(0), ZRotationOrIdentity(idx)))

\* the if / elif chain of Testing_with_Euler_angles: whole degrees about x
EulerRotationX(idx) == IF idx \in {0, 1, 2} THEN 42 ELSE 60

\* whole degrees about z; the final else takes every other index
EulerRotationZ(idx) ==
    IF idx \in {0, 3} THEN 30 ELSE IF idx \in {1, 4} THEN 60 ELSE 90

\* PhaseCanvas.get_sensor_rotation of Testing_with_Euler_angles
Euler_get_sensor_rotation(idx) ==
    Returned(MatMul(rotation_matrix_z(EulerRotationZ(idx) * Scale),
                    rotation_matrix_x(EulerRotationX(idx) * Scale)))

\* arr[i] on a numpy array of n rows: the row read, or -1 for an IndexError
NumpyRow(i, n) ==
    IF i >= 0 /\ i < n THEN i ELSE IF i < 0 /\ i >= -n THEN i + n ELSE -1

\* get_sensor_rotation of the live viewer on the row numpy hands back
RotationOfRow(row) ==
    IF row = -1 THEN Raised("IndexError")
    ELSE Returned(get_sensor_rotation(row, 0).object_rot)

\* PhaseCanvas.get_sensor_rotation of the live viewer, for any integer index
Rig_get_sensor_rotation(idx) == RotationOfRow(NumpyRow(idx, NumSensors))

\* the variant named by a call
RotationVariant(variant, idx) ==
    IF variant = "OptimizedSensorRotation" THEN OptimizedSensorRotation_get_sensor_rotation(idx)
    ELSE IF variant = "SensorRotation" THEN SensorRotation_get_sensor_rotation(idx)
    ELSE IF variant = "Euler" THEN Euler_get_sensor_rotation(idx)
    ELSE Rig_get_sensor_rotation(idx)

\* ---------------------------------------- visibility at a given position
\* the faces whose dot_product is nan in evaluate_visible_faces
NanDotProducts(sensor_position) ==
    {f \in FaceIdx : BackFaceDot(sensor_position, f).kind = "nan"}

\* evaluate_visible_faces as a call: the body has no raise and no guard
VisibleFacesCall(sensor_position) ==
    [done |-> TRUE, raised |-> FALSE,
     visible_faces |-> evaluate_visible_faces(sensor_position),
     visible_set |-> {f \in FaceIdx : BackFaceVisible(sensor_position, f)},
     nan_dot_products |-> NanDotProducts(sensor_position)]

\* the faces whose view_vector, and so whose angle, is nan in the cone loop
NanAngles(sensor_position) ==
    {f \in FaceIdx : IsNaNVector(Normalize(Sub(FaceCenters[f], sensor_position)))}

\* the cone loop of get_sensor_rotation as a call, the object unrotated
ConeCall(sensor_position) ==
    [done |-> TRUE, raised |-> FALSE,
     best_data |-> SensorRotationAt(sensor_position, get_calibration_object_rotation(0)).best_data,
     nan_angles |-> NanAngles(sensor_position)]

\* ------------------------------------------------------- face normals
\* calculate_face_normal as a call: the body has no raise and no guard
FaceNormalCall(face_vertices) ==
    [done |-> TRUE, raised |-> FALSE, normal |-> calculate_face_normal(face_vertices)]

\* custom_calculate_face_normal of pyVista_accauracy: normal /= norm
custom_calculate_face_normal(face_vertices) ==
    Normalize(Cross(Sub(face_vertices[2], face_vertices[1]),
                    Sub(face_vertices[3], face_vertices[1])))

CustomFaceNormalCall(face_vertices) ==
    [done |-> TRUE, raised |-> FALSE, normal |-> custom_calculate_face_normal(face_vertices)]

\* ------------------------------------------------------------- angle_list
\* np.degrees(np.arccos(c)): nan and a RuntimeWarning outside [-1, 1]
NumpyArcCosDeg(c) == IF c > Scale \/ c < -Scale THEN NaN ELSE Finite(ArcCosDeg(c))

\* what one angle computation hands to arccos, and what comes back
AngleOutcome(arccos_input) ==
    [done |-> TRUE, raised |-> FALSE, skipped |-> FALSE, arccos_input |-> arccos_input,
     angle |-> NumpyArcCosDeg(arccos_input)]

\* a face that is not annotated: arccos is not called
NoAngle == [done |-> TRUE, raised |-> FALSE, skipped |-> TRUE]

\* the float64 dot product of two unit vectors: the exact value and a
\* rounding error of at most one unit in the last place
RoundedDot(vec1, vec2, rounding) == Div(Dot(vec1, vec2), Scale) + rounding

\* calculate_angle of the live viewer: np.clip, then arccos
ClippedAngle(cos_angle) == AngleOutcome(Clip(cos_angle))

\* plot_sensor_and_phases: np.degrees(np.arccos(dot_product)) under
\* `if dot_product > 0`
AnnotatedAngle(dot_product) == IF dot_product > 0 THEN AngleOutcome(dot_product) ELSE NoAngle

\* the x-y part of a vector
InPlane(u) == <<u[1], u[2], 0>>

\* the frustum view: arccos of np.dot(face_normal[:2], delta / distance) as computed
FrustumAngle(face_normal, delta, rounding) ==
    AngleOutcome(RoundedDot(InPlane(face_normal), Normalize(InPlane(delta)), rounding))

\* the angle computation named by a call
AngleAt(site, vec1, vec2, rounding) ==
    IF site = "calculate_angle" THEN ClippedAngle(RoundedDot(vec1, vec2, rounding))
    ELSE IF site = "plot_sensor_and_phases" THEN AnnotatedAngle(RoundedDot(vec1, vec2, rounding))
    ELSE FrustumAngle(vec1, vec2, rounding)

\* ------------------------------------------- the slider-driven viewer
VARIABLES
    chart_sliders,          \* the six slider values: x, y, z, rotation x, y, z
    chart_sensor_position,  \* PhaseCanvas.sensor_position
    chart_rotation_matrix,  \* PhaseCanvas.rotation_matrix
    chart_distances,        \* PhaseCanvas.distances
    chart_angles,           \* PhaseCanvas.angles
    chart_updates           \* history: update_sensor_position calls so far

chartVars == <<chart_sliders, chart_sensor_position, chart_rotation_matrix,
               chart_distances, chart_angles, chart_updates>>

\* get_rotation_matrix: Rz @ (Ry @ Rx), the angles in degrees
get_rotation_matrix(rotation_x, rotation_y, rotation_z) ==
    MatMul(rotation_matrix_z(rotation_z),
           MatMul(rotation_matrix_y(rotation_y), rotation_matrix_x(rotation_x)))

\* np.dot(vertices, rotation_matrix.T)
RotatedVertices(rotation_matrix) ==
    [k \in 1..Len(Vertices) |-> MatVec(rotation_matrix, Vertices[k])]

\* `if dot_product > 0`: the distance and angle collected for one face, or nothing
ChartAppend(dot_product, view) ==
    IF IsPositive(dot_product)
    THEN <<[distance |-> Norm(view), angle |-> NumpyArcCosDeg(Div(dot_product.value, Scale))]>>
    ELSE <<>>

\* one face of the loop of plot_sensor_and_phases
ChartFace(sensor_position, face_normal, face_center) ==
    ChartAppend(NumpyDot(face_normal, Normalize(Sub(sensor_position, face_center))),
                Sub(sensor_position, face_center))

\* `for face in faces`: what one evaluation collects from face idx on
RECURSIVE ChartRecordsFrom(_, _, _)
ChartRecordsFrom(sensor_position, rotated_vertices, idx) ==
    IF idx >= NumFaces THEN <<>>
    ELSE ChartFace(sensor_position,
                   calculate_face_normal(Corners(rotated_vertices, Faces[idx + 1])),
                   Mean3(Corners(rotated_vertices, Faces[idx + 1])))
             \o ChartRecordsFrom(sensor_position, rotated_vertices, idx + 1)

\* everything one call of plot_sensor_and_phases collects
ChartRecords(sensor_position, rotation_matrix) ==
    ChartRecordsFrom(sensor_position, RotatedVertices(rotation_matrix), 0)

\* the sensor position read from the three position sliders
SliderPosition(sliders) == <<sliders.x * Scale, sliders.y * Scale, sliders.z * Scale>>

\* the rotation matrix built from the three rotation sliders
SliderRotation(sliders) ==
    get_rotation_matrix(sliders.rotation_x * Scale, sliders.rotation_y * Scale,
                        sliders.rotation_z * Scale)

\* create_slider: every slider starts at 0
InitialSliders ==
    [x |-> 0, y |-> 0, z |-> 0, rotation_x |-> 0, rotation_y |-> 0, rotation_z |-> 0]

\* the values a position slider is moved to, and those of a rotation slider
PositionStops == {-8, 0, 8}
RotationStops == {0, 90}

SliderStops(name) == IF name \in {"x", "y", "z"} THEN PositionStops ELSE RotationStops

\* ------------------------------------------------------- update_table
\* the number of flat entries appended by the sensors before sensor s
RowsBefore(counts, s) == SumFrom(SubSeq(counts, 1, s), 1)

\* the sensor (0-based) whose pass appended flat entry i (0-based): the
\* scene loop appends the entries of sensor 0, then those of sensor 1, ...
ProducerOfRow(counts, i) ==
    CHOOSE s \in 0..(Len(counts) - 1) :
        RowsBefore(counts, s) <= i /\ i < RowsBefore(counts, s + 1)

\* the flat lists handed to update_table, as the producer of each entry
ProducersOfRows(counts) ==
    [r \in 1..SumFrom(counts, 1) |-> ProducerOfRow(counts, r - 1)]

\* Testing_with_Euler_angles.py: sensor_idx = i // 10
EulerTableSensor(i) == i \div 10

\* Objective_function.py: sensor_index = (i // 6) + 1, shown as "Sensor n";
\* as a 0-based index this is i // 6
ObjectiveTableSensor(i) == i \div 6

\* the sensor index update_table derives from row number i
TableSensor(variant, i) ==
    IF variant = "Testing_with_Euler_angles"
    THEN EulerTableSensor(i)
    ELSE ObjectiveTableSensor(i)

\* sensor_positions[sensor_idx] and orientations[sensor_idx] raise an
\* IndexError past the sixth sensor; Objective_function.py indexes nothing
TableRowRaises(variant, i) ==
    variant = "Testing_with_Euler_angles" /\ EulerTableSensor(i) >= NumSensors

\* the rows filled before the loop ends or raises
TableRowsFilled(variant, rows) ==
    Cardinality({i \in 0..(rows - 1) :
        \A k \in 0..i : ~TableRowRaises(variant, k)})

\* update_table as a call: the Sensor column it fills, next to the producer
\* of every flat entry it was handed
UpdateTableCall(variant, producers) ==
    [done |-> TRUE,
     raised |-> \E i \in 0..(Len(producers) - 1) : TableRowRaises(variant, i),
     sensor_column |->
         [r \in 1..TableRowsFilled(variant, Len(producers)) |-> TableSensor(variant, r - 1)],
     producers |-> producers]
\* ------------------------------------------------------- initial states
SearchInit ==
    /\ pc = "start"
    /\ rng \in SeedStates
    /\ seed = rng
    /\ prev_seed = 0
    /\ iteration = 0
    /\ candidate_positions = <<>>
    /\ new_positions = <<>>
    /\ parent_idx = 1
    /\ child_idx = 0
    /\ best_position = NoPosition
    /\ created = 0
    /\ dropped = <<>>
    /\ first_best = NoCandidate
    /\ prev_result = NoPosition

\* the viewpoint search is not running
SearchIdle ==
    /\ pc = "start"
    /\ rng = 0
    /\ seed = 0
    /\ prev_seed = 0
    /\ iteration = 0
    /\ candidate_positions = <<>>
    /\ new_positions = <<>>
    /\ parent_idx = 1
    /\ child_idx = 0
    /\ best_position = NoPosition
    /\ created = 0
    /\ dropped = <<>>
    /\ first_best = NoCandidate
    /\ prev_result = NoPosition

\* PhaseCanvas.__init__: _updating is False, nothing computed, no file written
RigAt(t) ==
    /\ now = t
    /\ updating = FALSE
    /\ scene_pc = "idle"
    /\ sensor_idx = 0
    /\ mesh = NoMesh
    /\ visible_counts = <<>>
    /\ sensor_face_data = <<>>
    /\ orientations = <<>>
    /\ sensor_status = <<>>
    /\ scores = <<>>
    /\ visible_faces = <<>>
    /\ distances = <<>>
    /\ angles = <<>>
    /\ sensor_indices = <<>>
    /\ csv_data = <<>>
    /\ csv_file = <<>>
    /\ prev_csv_file = <<>>
    /\ returned_early = FALSE
    /\ last_exit = "none"

RigInit == \E t \in 0..MaxClock : RigAt(t)

\* the live viewer is not running
RigIdle == RigAt(0)

\* lists of faces of length at most MaxExpectedLen
FaceLists == UNION {[1..n -> 0..MaxFace] : n \in 0..MaxExpectedLen}

ScoreAt(actual, key, list) ==
    /\ sc_actual = actual
    /\ sc_key = key
    /\ sc_expected_map = (0 :> list)
    /\ sc_score = NotComputed
    /\ sc_accuracy = NotComputed

\* any set of actual faces, any list of expected faces under key 0, and a
\* key that is present (0) or absent (1)
ScoreInit ==
    \E actual \in SUBSET (0..MaxFace), key \in 0..1, list \in FaceLists :
        ScoreAt(actual, key, list)

\* no score is being computed
ScoreIdle == ScoreAt({}, 0, <<>>)

\* ------------------------------------------------------ the calls made
\* the largest rig handed to evaluate_coverage_view_plan
MaxObjSensors == 2

\* how many vertices are made into degenerate faces
MaxDegenerate == 3

\* face lists in increasing face order, as the visibility loop builds them
IncreasingFaceLists ==
    {l \in FaceLists : \A i \in 1..Len(l) : \A j \in 1..Len(l) : i < j => l[i] < l[j]}

\* the per-sensor face lists of a rig of at most MaxObjSensors sensors
VisibleFaceLists == UNION {[1..n -> IncreasingFaceLists] : n \in 0..MaxObjSensors}

DistanceLists == {<<>>, <<8 * Scale, 6500>>}
AngleLists == {<<>>, <<0, 60 * Scale>>, <<180 * Scale>>}

ObjectiveCalls ==
    {[fn |-> "evaluate_coverage_view_plan", visible_faces |-> v, distances |-> d,
      angles |-> a, total_faces |-> t] :
        v \in VisibleFaceLists, d \in DistanceLists, a \in AngleLists, t \in 0..(MaxFace + 1)}

\* how far below 0 and beyond the last sensor the requested indices go
MaxIndexOvershoot == 2

RotationVariants == {"OptimizedSensorRotation", "SensorRotation", "Euler", "PhaseCanvas"}

RotationCalls ==
    {[fn |-> "get_sensor_rotation", variant |-> v, sensor_idx |-> i] :
        v \in RotationVariants,
        i \in (-NumSensors - MaxIndexOvershoot)..(NumSensors + MaxIndexOvershoot - 1)}

\* sensor positions: every face centre, and the rig positions
ProbePositions == {FaceCenters[f] : f \in FaceIdx} \cup ToSet(get_sensor_positions)

VisibilityCalls ==
    {[fn |-> m, sensor_position |-> p] :
        m \in {"evaluate_visible_faces", "cone_loop"}, p \in ProbePositions}

\* the corner triples of the mesh, and for every vertex the triple holding it
\* three times and the triple on one line through it
FaceVertexTriples ==
    {Corners(Vertices, Faces[f + 1]) : f \in FaceIdx}
        \cup {<<Vertices[k], Vertices[k], Vertices[k]>> : k \in 1..MaxDegenerate}
        \cup {<<Vertices[k], Sub(Vertices[k], Vertices[k]), Neg(Vertices[k])>> : k \in 1..MaxDegenerate}

NormalCalls ==
    {[fn |-> m, face_vertices |-> fv] :
        m \in {"calculate_face_normal", "custom_calculate_face_normal"},
        fv \in FaceVertexTriples}

\* unit vectors along the axes
UnitVectors == ToSet(AxisPoints(Scale))

AngleCalls ==
    {[fn |-> "angle", site |-> s, vec1 |-> u, vec2 |-> v, rounding |-> e] :
        s \in {"calculate_angle", "plot_sensor_and_phases", "frustum"},
        u \in UnitVectors, v \in {w \in UnitVectors : w[3] = 0}, e \in -1..1}

\* the visible-face counts of the six sensors of the rig in back-face mode
RigBackFaceCounts ==
    [s \in 1..NumSensors |-> evaluate_visible_faces(get_sensor_positions[s])]

\* visible-face counts per sensor: those of the rig, and for other sensor
\* placements a first sensor and five others that see 0, 5, 6 or 10 faces
TableCounts ==
    {RigBackFaceCounts} \cup
    {[s \in 1..NumSensors |-> IF s = 1 THEN a ELSE b] : a, b \in {0, 5, 6, 10}}

TableCalls ==
    {[fn |-> "update_table", variant |-> v, counts |-> c] :
        v \in {"Testing_with_Euler_angles", "Objective_function"}, c \in TableCounts}

AllCalls ==
    ObjectiveCalls \cup RotationCalls \cup VisibilityCalls \cup NormalCalls \cup AngleCalls
        \cup TableCalls


CallAt(c) ==
    /\ call = c
    /\ outcome = NotCalled

CallInit == \E c \in AllCalls : CallAt(c)

\* no function is being called
CallIdle == CallAt(NoCall)

\* -------------------------------------------- the slider-driven viewer
\* how many slider moves are followed
MaxChartUpdates == 3

ChartAt(sliders, sensor_position, rotation_matrix, records) ==
    /\ chart_sliders = sliders
    /\ chart_sensor_position = sensor_position
    /\ chart_rotation_matrix = rotation_matrix
    /\ chart_distances = DistanceColumn(records)
    /\ chart_angles = AngleColumn(records)
    /\ chart_updates = 0

\* PhaseCanvas.__init__: the sensor at (8, 0, 0), the identity rotation, empty
\* lists, then the first plot_sensor_and_phases
ChartInit ==
    ChartAt(InitialSliders, <<8 * Scale, 0, 0>>, Identity3,
            ChartRecords(<<8 * Scale, 0, 0>>, Identity3))

\* the slider-driven viewer is not running
ChartIdle == ChartAt(InitialSliders, <<0, 0, 0>>, Identity3, <<>>)

\* ---------------------------------------------- select_best_viewpoint
\* select_best_viewpoint up to the loop: evaluate the initial position and
\* start the pool with it
SelectStart ==
    /\ pc = "start"
    /\ \E first \in {Candidate(initial_position, evaluate_visible_faces(initial_position), 0)} :
           /\ candidate_positions' = <<first>>
           /\ first_best' = first
    /\ created' = 1
    /\ iteration' = 0
    /\ new_positions' = <<>>
    /\ parent_idx' = 1
    /\ child_idx' = 0
    /\ pc' = IF LoopRunsAgain(0) THEN "generate" ELSE "return"
    /\ UNCHANGED <<rng, best_position, dropped, seed, prev_seed, prev_result>>
    /\ UNCHANGED <<rigVars, scoreVars, callVars, chartVars>>

\* the pool entry of a new position: the position with its evaluated count
MakeChild(new_position, born) ==
    Candidate(new_position, evaluate_visible_faces(new_position), born)

\* one pass of the inner loop body: perturb the current pool entry, project,
\* evaluate and append to new_positions
GenerateChild ==
    /\ pc = "generate"
    /\ parent_idx <= Len(candidate_positions)
    /\ \E child \in {MakeChild(Perturb(candidate_positions[parent_idx].position,
                                       UniformVec(rng)), created)} :
           /\ new_positions' = Append(new_positions, child)
           /\ first_best' = FirstBest(first_best, child)
    /\ rng' = RngAfterVec(rng)
    /\ created' = created + 1
    /\ IF InnerLoopEnds(child_idx + 1)
       THEN parent_idx' = parent_idx + 1 /\ child_idx' = 0
       ELSE parent_idx' = parent_idx /\ child_idx' = child_idx + 1
    /\ UNCHANGED <<pc, iteration, candidate_positions, best_position, dropped, seed, prev_seed,
                   prev_result>>
    /\ UNCHANGED <<rigVars, scoreVars, callVars, chartVars>>

\* the end of one iteration: combine old and new, sort by visible faces, keep
\* the top num_candidates_to_keep, and test the loop bound
MergeSortTruncate ==
    /\ pc = "generate"
    /\ parent_idx > Len(candidate_positions)
    /\ \E merged \in {SortByVisibleFaces(candidate_positions \o new_positions)} :
           /\ candidate_positions' = Truncate(merged)
           /\ dropped' = CutOff(merged)
    /\ new_positions' = <<>>
    /\ parent_idx' = 1
    /\ child_idx' = 0
    /\ iteration' = iteration + 1
    /\ pc' = IF LoopRunsAgain(iteration + 1) THEN "generate" ELSE "return"
    /\ UNCHANGED <<rng, best_position, created, first_best, seed, prev_seed, prev_result>>
    /\ UNCHANGED <<rigVars, scoreVars, callVars, chartVars>>

\* best_position, _ = candidate_positions[0]; return best_position
ReturnBest ==
    /\ pc = "return"
    /\ best_position' = candidate_positions[1].position
    /\ pc' = "done"
    /\ UNCHANGED <<rng, iteration, candidate_positions, new_positions, parent_idx,
                   child_idx, created, dropped, first_best, seed, prev_seed, prev_result>>
    /\ UNCHANGED <<rigVars, scoreVars, callVars, chartVars>>

\* the program is started once more: a fresh process, a freshly seeded
\* generator, the same initial position; prev_result and prev_seed remember
\* the first run
Relaunch ==
    /\ pc = "done"
    /\ prev_result = NoPosition
    /\ prev_result' = best_position
    /\ prev_seed' = seed
    /\ \E k \in SeedStates :
           /\ rng' = Reseed(rng, k)
           /\ seed' = k
    /\ pc' = "start"
    /\ iteration' = 0
    /\ candidate_positions' = <<>>
    /\ new_positions' = <<>>
    /\ parent_idx' = 1
    /\ child_idx' = 0
    /\ best_position' = NoPosition
    /\ created' = 0
    /\ dropped' = <<>>
    /\ first_best' = NoCandidate
    /\ UNCHANGED <<rigVars, scoreVars, callVars, chartVars>>

\* ------------------------------------------------------- update_scene
\* the wall clock moves on
ClockTick ==
    /\ now < MaxClock
    /\ now' = now + 1
    /\ UNCHANGED <<updating, scene_pc, sensor_idx, mesh, visible_counts, sensor_face_data,
                   orientations, sensor_status, scores, visible_faces, distances, angles,
                   sensor_indices, csv_data, csv_file, prev_csv_file, returned_early,
                   last_exit>>
    /\ UNCHANGED <<searchVars, scoreVars, callVars, chartVars>>

\* the timer fires and no update is in progress: set the flag, fetch the
\* mesh, start the pass with empty lists
UpdateSceneBegin ==
    /\ scene_pc = "idle"
    /\ ~updating
    /\ updating' = TRUE
    /\ mesh' = get_icosahedron
    /\ sensor_idx' = 0
    /\ visible_counts' = <<>>
    /\ sensor_face_data' = <<>>
    /\ orientations' = <<>>
    /\ sensor_status' = <<>>
    /\ scores' = <<>>
    /\ visible_faces' = <<>>
    /\ distances' = <<>>
    /\ angles' = <<>>
    /\ sensor_indices' = <<>>
    /\ csv_data' = <<>>
    /\ scene_pc' = "sensors"
    /\ returned_early' = FALSE
    /\ last_exit' = "none"
    /\ UNCHANGED <<now, csv_file, prev_csv_file>>
    /\ UNCHANGED <<searchVars, scoreVars, callVars, chartVars>>

\* one pass of the per-sensor loop body
UpdateSceneSensor ==
    /\ scene_pc = "sensors"
    /\ sensor_idx < NumSensors
    /\ \E p \in {SensorPass(sensor_idx, now)} :
           /\ visible_counts' = Append(visible_counts, p.visible_count)
           /\ sensor_face_data' = Append(sensor_face_data, p.face_data)
           /\ orientations' = Append(orientations, p.euler)
           /\ sensor_status' = Append(sensor_status, p.status)
           /\ scores' = Append(scores, p.score)
           /\ visible_faces' = visible_faces \o FaceColumn(p.face_data)
           /\ distances' = distances \o DistanceColumn(p.face_data)
           /\ angles' = angles \o AngleColumn(p.face_data)
           /\ sensor_indices' = sensor_indices \o [i \in 1..Len(p.face_data) |-> sensor_idx]
           /\ csv_data' = csv_data \o CsvRows(sensor_idx, get_sensor_positions[sensor_idx + 1], p)
    /\ sensor_idx' = sensor_idx + 1
    /\ scene_pc' = IF sensor_idx + 1 < NumSensors THEN "sensors" ELSE "publish"
    /\ UNCHANGED <<now, updating, mesh, csv_file, prev_csv_file, returned_early, last_exit>>
    /\ UNCHANGED <<searchVars, scoreVars, callVars, chartVars>>

\* the tail of update_scene: write the CSV, then the finally clause clears the flag
UpdateSceneFinish ==
    /\ scene_pc = "publish"
    /\ csv_file' = write_to_csv(csv_data)
    /\ prev_csv_file' = csv_file
    /\ updating' = FALSE
    /\ scene_pc' = "idle"
    /\ returned_early' = FALSE
    /\ last_exit' = "normal"
    /\ UNCHANGED <<now, sensor_idx, mesh, visible_counts, sensor_face_data, orientations,
                   sensor_status, scores, visible_faces, distances, angles, sensor_indices,
                   csv_data>>
    /\ UNCHANGED <<searchVars, scoreVars, callVars, chartVars>>

\* an early return that clears the flag on its way out
FlagClearedByEarlyReturn(flag) == FALSE

\* what the flag test's `return` leaves in the flag: nothing is assigned
FlagAfterEarlyReturn(flag) == flag

\* update_scene is called while an update is in progress: `if self._updating:
\* return`
UpdateSceneReturnEarly ==
    /\ updating
    /\ returned_early' = TRUE
    /\ updating' = FlagAfterEarlyReturn(updating)
    /\ UNCHANGED <<now, scene_pc, sensor_idx, mesh, visible_counts, sensor_face_data,
                   orientations, sensor_status, scores, visible_faces, distances, angles,
                   sensor_indices, csv_data, csv_file, prev_csv_file, last_exit>>
    /\ UNCHANGED <<searchVars, scoreVars, callVars, chartVars>>

\* a body without the finally clause: an exception leaves the flag set
FlagLeftSet == TRUE

\* `finally: self._updating = False`
FlagAfterException == FALSE

\* an exception is raised inside the try block (the file cannot be opened,
\* the table update fails): the rest of the body is skipped, nothing is
\* written, the locals of the pass are gone, and the finally clause runs
UpdateSceneRaise ==
    /\ scene_pc \in {"sensors", "publish"}
    /\ updating' = FlagAfterException
    /\ scene_pc' = "idle"
    /\ last_exit' = "exception"
    /\ returned_early' = FALSE
    /\ sensor_idx' = 0
    /\ visible_counts' = <<>>
    /\ sensor_face_data' = <<>>
    /\ orientations' = <<>>
    /\ sensor_status' = <<>>
    /\ scores' = <<>>
    /\ visible_faces' = <<>>
    /\ distances' = <<>>
    /\ angles' = <<>>
    /\ sensor_indices' = <<>>
    /\ csv_data' = <<>>
    /\ UNCHANGED <<now, mesh, csv_file, prev_csv_file>>
    /\ UNCHANGED <<searchVars, scoreVars, callVars, chartVars>>

\* ------------------------------------------- the score as a pure function
\* update_scene computes the score of one sensor
ComputeScore ==
    /\ sc_score = NotComputed
    /\ sc_score' = CoverageScore(sc_actual, sc_expected_map, sc_key)
    /\ UNCHANGED <<sc_actual, sc_expected_map, sc_key, sc_accuracy>>
    /\ UNCHANGED <<searchVars, rigVars, callVars, chartVars>>

\* the distance report computes the accuracy of one sensor
ComputeAccuracy ==
    /\ sc_accuracy = NotComputed
    /\ sc_accuracy' = accuracy(sc_actual, sc_expected_map, sc_key)
    /\ UNCHANGED <<sc_actual, sc_expected_map, sc_key, sc_score>>
    /\ UNCHANGED <<searchVars, rigVars, callVars, chartVars>>

\* ------------------------------------------- functions called on their own
\* the viewer hands the lists of one plot to evaluate_coverage_view_plan
EvaluateObjective ==
    /\ call.fn = "evaluate_coverage_view_plan"
    /\ outcome = NotCalled
    /\ outcome' = evaluate_coverage_view_plan(call.visible_faces, call.distances,
                                              call.angles, call.total_faces)
    /\ UNCHANGED call
    /\ UNCHANGED <<searchVars, rigVars, scoreVars, chartVars>>

\* a rotation is requested for some integer sensor index
RequestRotation ==
    /\ call.fn = "get_sensor_rotation"
    /\ outcome = NotCalled
    /\ outcome' = RotationVariant(call.variant, call.sensor_idx)
    /\ UNCHANGED call
    /\ UNCHANGED <<searchVars, rigVars, scoreVars, chartVars>>

\* evaluate_visible_faces is applied to a sensor position
EvaluateVisibleFaces ==
    /\ call.fn = "evaluate_visible_faces"
    /\ outcome = NotCalled
    /\ outcome' = VisibleFacesCall(call.sensor_position)
    /\ UNCHANGED call
    /\ UNCHANGED <<searchVars, rigVars, scoreVars, chartVars>>

\* the cone loop of get_sensor_rotation is run from a sensor position
RunConeLoop ==
    /\ call.fn = "cone_loop"
    /\ outcome = NotCalled
    /\ outcome' = ConeCall(call.sensor_position)
    /\ UNCHANGED call
    /\ UNCHANGED <<searchVars, rigVars, scoreVars, chartVars>>

\* calculate_face_normal is applied to three corner points
ComputeFaceNormal ==
    /\ call.fn = "calculate_face_normal"
    /\ outcome = NotCalled
    /\ outcome' = FaceNormalCall(call.face_vertices)
    /\ UNCHANGED call
    /\ UNCHANGED <<searchVars, rigVars, scoreVars, chartVars>>

\* custom_calculate_face_normal is applied to three corner points
ComputeCustomFaceNormal ==
    /\ call.fn = "custom_calculate_face_normal"
    /\ outcome = NotCalled
    /\ outcome' = CustomFaceNormalCall(call.face_vertices)
    /\ UNCHANGED call
    /\ UNCHANGED <<searchVars, rigVars, scoreVars, chartVars>>

\* one angle is computed at one place of the code
ComputeAngle ==
    /\ call.fn = "angle"
    /\ outcome = NotCalled
    /\ outcome' = AngleAt(call.site, call.vec1, call.vec2, call.rounding)
    /\ UNCHANGED call
    /\ UNCHANGED <<searchVars, rigVars, scoreVars, chartVars>>

\* the scene loop has filled the flat lists and calls update_table
UpdateTable ==
    /\ call.fn = "update_table"
    /\ outcome = NotCalled
    /\ outcome' = UpdateTableCall(call.variant, ProducersOfRows(call.counts))
    /\ UNCHANGED call
    /\ UNCHANGED <<searchVars, rigVars, scoreVars, chartVars>>

\* ------------------------------------------- the slider-driven viewer
\* a slider is moved: update_sensor_position reads all six sliders, stores the
\* position and the rotation and calls plot_sensor_and_phases, which appends
\* to the lists it finds
UpdateSensorPosition ==
    /\ chart_updates < MaxChartUpdates
    /\ \E name \in DOMAIN chart_sliders : \E value \in SliderStops(name) \ {chart_sliders[name]} :
         \E sliders \in {[chart_sliders EXCEPT ![name] = value]} :
         \E records \in {ChartRecords(SliderPosition(sliders), SliderRotation(sliders))} :
           /\ chart_sliders' = sliders
           /\ chart_sensor_position' = SliderPosition(sliders)
           /\ chart_rotation_matrix' = SliderRotation(sliders)
           /\ chart_distances' = chart_distances \o DistanceColumn(records)
           /\ chart_angles' = chart_angles \o AngleColumn(records)
    /\ chart_updates' = chart_updates + 1
    /\ UNCHANGED <<searchVars, rigVars, scoreVars, callVars>>

\* --------------------------------------------------------- specifications
vars == <<searchVars, rigVars, scoreVars, callVars, chartVars>>

SearchNext == SelectStart \/ GenerateChild \/ MergeSortTruncate \/ ReturnBest \/ Relaunch

RigNext ==
    \/ ClockTick
    \/ UpdateSceneBegin
    \/ UpdateSceneSensor
    \/ UpdateSceneFinish
    \/ UpdateSceneReturnEarly
    \/ UpdateSceneRaise

ScoreNext == ComputeScore \/ ComputeAccuracy

CallNext ==
    \/ EvaluateObjective
    \/ RequestRotation
    \/ EvaluateVisibleFaces
    \/ RunConeLoop
    \/ ComputeFaceNormal
    \/ ComputeCustomFaceNormal
    \/ ComputeAngle
    \/ UpdateTable

ChartNext == UpdateSensorPosition

\* the viewer process runs select_best_viewpoint; nothing else is running
Init == SearchInit /\ RigIdle /\ ScoreIdle /\ CallIdle /\ ChartIdle

\* the live viewer starts at some clock reading
RigSpecInit == SearchIdle /\ RigInit /\ ScoreIdle /\ CallIdle /\ ChartIdle

\* the score inputs are chosen
ScoreSpecInit == SearchIdle /\ RigIdle /\ ScoreInit /\ CallIdle /\ ChartIdle

\* one function is about to be called with one choice of arguments
CallSpecInit == SearchIdle /\ RigIdle /\ ScoreIdle /\ CallInit /\ ChartIdle

\* the slider-driven viewer has been constructed
ChartSpecInit == SearchIdle /\ RigIdle /\ ScoreIdle /\ CallIdle /\ ChartInit

\* the viewpoint search, run and run again
Spec == Init /\ [][SearchNext]_vars

\* the live viewer: the timer keeps calling update_scene while the clock runs
RigSpec == RigSpecInit /\ [][RigNext]_vars

\* the coverage score and the accuracy applied to every bounded input
ScoreSpec == ScoreSpecInit /\ [][ScoreNext]_vars

\* each function applied to every bounded choice of its arguments
CallSpec == CallSpecInit /\ [][CallNext]_vars

\* the slider-driven viewer: sliders are moved one at a time
ChartSpec == ChartSpecInit /\ [][ChartNext]_vars
\* ------------------------------------------------------------- properties
\* the visible-face count at the head of a non-empty pool
HeadCount(pool) == pool[1].visible_faces

\* the pool holds at least the initial candidate
PoolStarted == candidate_positions # <<>>

\* C1: the count of the returned candidate is at least the count of the
\* initial position (10,0,0), and the count at the head of the pool never
\* decreases from one state of a run to the next.
C1_BestNeverWorse ==
    /\ [](PoolStarted =>
            HeadCount(candidate_positions) >= evaluate_visible_faces(initial_position))
    /\ [](pc = "done" => best_position = candidate_positions[1].position)
    /\ [][(PoolStarted /\ candidate_positions' # <<>>) =>
            HeadCount(candidate_positions') >= HeadCount(candidate_positions)]_vars

\* a run has returned a position that sees more faces than the initial one
C1_Witness ==
    /\ pc = "done"
    /\ best_position = candidate_positions[1].position
    /\ HeadCount(candidate_positions) > evaluate_visible_faces(initial_position)

\* the expected face set looked up for the score inputs
ScExpected == ToSet(DictGet(sc_expected_map, sc_key))

\* C2 (as stated): the score is exactly 1.0 whenever the actual set equals
\* the expected set and exactly 0.0 whenever the two are disjoint, empty sets
\* and an absent key included.
C2_AsStated ==
    sc_score # NotComputed =>
        /\ sc_actual = ScExpected => sc_score.value = Scale
        /\ sc_actual \cap ScExpected = {} => sc_score.value = 0

\* C2 (amended): the score is exactly 1.0 whenever the actual set equals a
\* non-empty expected set, and exactly 0.0 whenever the two sets are disjoint,
\* which includes every case with an empty set or an absent key.
C2_ScoreAtExtremes ==
    sc_score # NotComputed =>
        /\ ~sc_score.raised
        /\ (sc_actual = ScExpected /\ ScExpected # {}) => sc_score.value = Scale
        /\ sc_actual \cap ScExpected = {} => sc_score.value = 0

\* the score of two equal sets of two faces has been computed
C2_Witness ==
    /\ sc_score # NotComputed
    /\ sc_actual = ScExpected
    /\ Cardinality(ScExpected) = 2

\* the undirected edges of one triangular face
EdgesOf(face) == {{face[1], face[2]}, {face[2], face[3]}, {face[3], face[1]}}

\* the undirected edges of all faces
MeshEdges(faces) == UNION {EdgesOf(faces[i]) : i \in 1..Len(faces)}

\* the number of faces an edge occurs in
FacesSharing(faces, edge) == Cardinality({i \in 1..Len(faces) : edge \in EdgesOf(faces[i])})

\* C3: the mesh obtained from get_icosahedron has exactly 12 vertices and 20
\* triangular faces, every face index is in 0..11, every undirected edge of a
\* face is shared by exactly 2 faces, and there are 30 edges.
C3_ClosedIcosahedron ==
    mesh # NoMesh =>
        /\ Len(mesh.vertices) = 12
        /\ Len(mesh.faces) = 20
        /\ \A i \in 1..Len(mesh.faces) :
               /\ Len(mesh.faces[i]) = 3
               /\ \A c \in 1..3 : mesh.faces[i][c] \in 0..11
               /\ Cardinality(EdgesOf(mesh.faces[i])) = 3
        /\ \A edge \in MeshEdges(mesh.faces) : FacesSharing(mesh.faces, edge) = 2
        /\ Cardinality(MeshEdges(mesh.faces)) = 30

\* a pass of update_scene has fetched the mesh
C3_Witness == mesh # NoMesh /\ scene_pc = "sensors" /\ Len(mesh.faces) = 20

C5_SortedBoundedPool ==
    /\ Len(candidate_positions) <= 10
    /\ \A i, j \in 1..Len(candidate_positions) :
           i < j => candidate_positions[i].visible_faces >= candidate_positions[j].visible_faces
    /\ \A d \in 1..Len(dropped), k \in 1..Len(candidate_positions) :
           dropped[d].visible_faces <= candidate_positions[k].visible_faces

\* an iteration has ended with a full pool and a truncation that cut through
\* a tie and dropped candidates with a smaller count than any kept
C5_Witness ==
    /\ new_positions = <<>>
    /\ Len(candidate_positions) = 10
    /\ dropped # <<>>
    /\ dropped[1].visible_faces = candidate_positions[10].visible_faces
    /\ dropped[Len(dropped)].visible_faces < candidate_positions[10].visible_faces

\* C6: select_best_viewpoint always terminates: every run takes finitely
\* many steps and can stop only after its return; it reaches its return only
\* after exactly 50 completed iterations, whatever the best count has become,
\* and returns the position of the first pool entry.
C6_FixedBudgetThenReturn ==
    /\ [](pc \in {"start", "generate", "return", "done"})
    /\ [](pc \in {"return", "done"} => (iteration = 50 /\ PoolStarted))
    /\ [](pc = "generate" => iteration < 50)
    /\ [](pc = "done" => best_position = candidate_positions[1].position)
    /\ <>[][FALSE]_vars

\* the run has returned although the best count had stopped improving: the
\* whole final pool already holds the count of its head
C6_Witness ==
    /\ pc = "done"
    /\ iteration = 50
    /\ best_position = candidate_positions[1].position
    /\ candidate_positions[10].visible_faces = candidate_positions[1].visible_faces

\* candidates with equal counts stand in the order they were evaluated in
TiesInInsertionOrder(pool) ==
    \A i, j \in 1..Len(pool) :
        (i < j /\ pool[i].visible_faces = pool[j].visible_faces) => pool[i].born < pool[j].born

\* C7: among pool candidates with equal count the earlier evaluated one
\* stands first (parents before children, earlier children before later);
\* the head of the pool is replaced only by a candidate with a strictly
\* greater count; and between iterations the head is the first candidate that
\* was ever evaluated with the highest count, which is also what is returned;
\* that candidate is the initial position while no child has exceeded the
\* initial count.
C7_StableTies ==
    /\ [](TiesInInsertionOrder(candidate_positions))
    /\ []((PoolStarted /\ new_positions = <<>>) => candidate_positions[1] = first_best)
    /\ [](pc = "done" => best_position = first_best.position)
    /\ []((PoolStarted /\ first_best.born = 0) => first_best.position = initial_position)
    /\ [][(PoolStarted /\ candidate_positions' # <<>>
              /\ candidate_positions'[1] # candidate_positions[1]) =>
            /\ HeadCount(candidate_positions') > HeadCount(candidate_positions)
            /\ candidate_positions'[1].born > candidate_positions[1].born]_vars

\* an iteration has ended in which children tied with the initial position
\* and none exceeded it: the initial position is still at the head
C7_Witness ==
    /\ iteration >= 1
    /\ new_positions = <<>>
    /\ Len(candidate_positions) >= 2
    /\ candidate_positions[1].born = 0
    /\ candidate_positions[1].position = initial_position
    /\ candidate_positions[2].visible_faces = candidate_positions[1].visible_faces

\* C8: for every sensor handled in a pass of update_scene the status is GOOD
\* if and only if its visible-face count is at least 5, and BAD otherwise.
C8_StatusThreshold ==
    /\ Len(sensor_status) = Len(visible_counts)
    /\ \A k \in 1..Len(sensor_status) :
           /\ sensor_status[k] = "GOOD" <=> visible_counts[k] >= 5
           /\ sensor_status[k] = "BAD" <=> visible_counts[k] < 5

\* one pass has given a GOOD to a sensor with fewer than 20 faces and a BAD
\* to another
C8_Witness ==
    /\ \E k \in 1..Len(sensor_status) :
           sensor_status[k] = "GOOD" /\ visible_counts[k] < 7
    /\ \E k \in 1..Len(sensor_status) : sensor_status[k] = "BAD"

\* C9: the records produced for one sensor are in strictly increasing
\* face-index order, so that no face index appears twice.
C9_RecordsInFaceOrder ==
    \A k \in 1..Len(sensor_face_data) :
        \A i, j \in 1..Len(sensor_face_data[k]) :
            i < j => sensor_face_data[k][i].face < sensor_face_data[k][j].face

\* a sensor has produced several records but not one for every face
C9_Witness ==
    \E k \in 1..Len(sensor_face_data) :
        /\ Len(sensor_face_data[k]) >= 2
        /\ Len(sensor_face_data[k]) < 20
        /\ sensor_face_data[k][1].face > 0

\* C10: the coverage score and the accuracy are always computed without a
\* division by zero, for every actual and expected face set, an empty
\* expected set and a key absent from the expected map included.
C10_ScoreNeverFails ==
    /\ ~sc_score.raised
    /\ ~sc_accuracy.raised
    /\ sc_score # NotComputed => sc_score.value >= 0
    /\ sc_accuracy # NotComputed => sc_accuracy.value >= 0

\* both have been computed for a key that is absent from the expected map
C10_Witness ==
    /\ sc_score # NotComputed
    /\ sc_accuracy # NotComputed
    /\ sc_key \notin DOMAIN sc_expected_map
    /\ sc_actual # {}


\* ------------------------------------------------ the objective function
\* the call made is evaluate_coverage_view_plan and it has ended
ObjectiveEnded == call.fn = "evaluate_coverage_view_plan" /\ outcome.done

\* the call has ended by returning a value
ObjectiveReturned == ObjectiveEnded /\ ~outcome.raised

\* the set of faces sensor i of the call sees
SeenBy(i) == ToSet(call.visible_faces[i])

\* C11: evaluate_coverage_view_plan returns a value without raising for every
\* input: an empty sensor list, sensors that see no face, a total face count
\* of 0, an angle of 180 degrees.
C11_ObjectiveNeverRaises == ObjectiveEnded => ~outcome.raised

\* the inputs C11 names that do come back with a value: no sensors or an
\* angle of 180 degrees, and a face count above 0
C11_Witness ==
    /\ ObjectiveReturned
    /\ call.angles = <<180 * Scale>>
    /\ call.visible_faces = <<>>
    /\ outcome.objective_value = MinusInf

\* C12: the value returned is coverageFraction - totalDistance / 100
\* - sum of 1 / (1 + cos(angle)) - overlapPenalty / 10, where coverageFraction
\* is the size of the union of all sensors' visible faces over the total face
\* count, a face seen by several sensors counting once.
C12_ObjectiveFormula ==
    ObjectiveReturned =>
        /\ outcome.coverage_score =
               Div(Cardinality(UNION {SeenBy(i) : i \in 1..Len(call.visible_faces)}) * Scale,
                   call.total_faces)
        /\ outcome.total_distance = SumFrom(call.distances, 1)
        /\ (\A i \in 1..Len(call.angles) : Scale + CosDeg(call.angles[i]) # 0) =>
               /\ outcome.angle_penalty.kind = "finite"
               /\ outcome.angle_penalty.value =
                      SumFrom([i \in 1..Len(call.angles) |->
                                  Div(Scale * Scale, Scale + CosDeg(call.angles[i]))], 1)
               /\ outcome.objective_value =
                      Finite(outcome.coverage_score - Div(outcome.total_distance, 100)
                             - outcome.angle_penalty.value
                             - Div(outcome.overlap_penalty * Scale, 10))
        /\ (\E i \in 1..Len(call.angles) : Scale + CosDeg(call.angles[i]) = 0) =>
               outcome.objective_value = MinusInf

\* two sensors seeing a common face, all terms finite
C12_Witness ==
    /\ ObjectiveReturned
    /\ Len(call.visible_faces) = 2
    /\ SeenBy(1) \cap SeenBy(2) # {}
    /\ SeenBy(1) # SeenBy(2)
    /\ call.angles = <<0, 60 * Scale>>
    /\ call.distances # <<>>
    /\ outcome.objective_value.kind = "finite"

\* C13: the overlap penalty is the sum, over the unordered pairs of distinct
\* sensors, of the number of face indices both see; every pair counts once;
\* it is 0 exactly when the visible sets are pairwise disjoint.
C13_OverlapPenalty ==
    ObjectiveReturned =>
        /\ outcome.overlap_penalty =
               Cardinality({t \in (1..Len(call.visible_faces)) \X (1..Len(call.visible_faces))
                                    \X (0..MaxFace) :
                                t[1] < t[2] /\ t[3] \in SeenBy(t[1]) /\ t[3] \in SeenBy(t[2])})
        /\ outcome.overlap_penalty = 0 <=>
               \A i, j \in 1..Len(call.visible_faces) :
                   i # j => SeenBy(i) \cap SeenBy(j) = {}

\* two sensors that both see two faces and share exactly one of them
C13_Witness ==
    /\ ObjectiveReturned
    /\ Len(call.visible_faces) = 2
    /\ Cardinality(SeenBy(1)) = 2
    /\ Cardinality(SeenBy(2)) = 2
    /\ outcome.overlap_penalty = 1

\* ------------------------------------------------------------ the CSV file
\* a pass has been completed and its file written
PassWritten == scene_pc = "idle" /\ csv_file # <<>> /\ last_exit = "normal"

\* the (sensor, face) pair named by data row k of the file
RowPair(k) == <<csv_file[k][1] - 1, csv_file[k][3]>>

\* C14: the number of data rows of the CSV written by one rig evaluation is
\* the total number of visible (sensor, face) pairs: every pair has its row,
\* no row is missing and none is duplicated.
C14_OneRowPerVisiblePair ==
    PassWritten =>
        /\ Len(csv_file) - 1 = SumFrom(visible_counts, 1)
        /\ \A s \in SensorIdx : \A i \in 1..visible_counts[s + 1] :
               \E k \in 2..Len(csv_file) : RowPair(k) = <<s, sensor_face_data[s + 1][i].face>>
        /\ \A k \in 2..Len(csv_file) :
               \E i \in 1..visible_counts[RowPair(k)[1] + 1] :
                   sensor_face_data[RowPair(k)[1] + 1][i].face = RowPair(k)[2]
        /\ \A k, m \in 2..Len(csv_file) : RowPair(k) = RowPair(m) => k = m

\* a pass in which two sensors see nothing and two see seven faces each
C14_Witness ==
    /\ PassWritten
    /\ visible_counts[1] = 0
    /\ visible_counts[3] = 7
    /\ Len(csv_file) = 15

\* C15: after any sequence of completed update_scene passes the CSV file
\* holds the header row Sensor, Pose, Face, Distance, Angle, Alpha, Beta,
\* Theta, Status, Score and then the rows of the most recent pass only.
C15_FileIsLastPass ==
    PassWritten =>
        /\ csv_file[1] = <<"Sensor", "Pose", "Face", "Distance", "Angle",
                           "Alpha", "Beta", "Theta", "Status", "Score">>
        /\ Len(csv_file) = 1 + Len(csv_data)
        /\ \A k \in 1..Len(csv_data) : csv_file[k + 1] = csv_data[k]

\* a later pass has replaced a longer file written by an earlier pass
C15_Witness ==
    /\ PassWritten
    /\ prev_csv_file # <<>>
    /\ Len(prev_csv_file) > Len(csv_file)
    /\ Len(csv_file) > 1

\* ------------------------------------------------- sensor index requests
\* a rotation has been requested for an index outside the rig and the call has ended
InvalidIndexRequested ==
    /\ call.fn = "get_sensor_rotation"
    /\ outcome.done
    /\ (call.sensor_idx < 0 \/ call.sensor_idx >= NumSensors)

\* C16: a request for the rotation of a sensor whose index lies outside the
\* rig (negative, or 6 and above) raises an invalid-sensor-index error in
\* every get_sensor_rotation variant; no rotation matrix is returned.
C16_InvalidIndexRaises == InvalidIndexRequested => outcome.raised

\* the one variant that names the error: index 6 and above in OptimizedSensorRotation
C16_Witness ==
    /\ InvalidIndexRequested
    /\ call.variant = "OptimizedSensorRotation"
    /\ call.sensor_idx >= NumSensors
    /\ outcome.raised
    /\ outcome.error = "ValueError"

\* ------------------------------------------------- degenerate geometry
\* the faces whose centre is the sensor position of the call
FacesAtSensor == {f \in FaceIdx : FaceCenters[f] = call.sensor_position}

\* the faces named by the records of a cone loop
RecordedFaces == ToSet(FaceColumn(outcome.best_data))

\* C17: when the sensor position coincides with a face centre the visibility
\* evaluation treats the zero-length view vector as a degenerate-geometry
\* error: the face is set aside before anything is computed from it, it is
\* not in the visible set, and no NaN dot product or angle comes about.
C17_DegenerateViewSetAside ==
    /\ (call.fn = "evaluate_visible_faces" /\ outcome.done) =>
           /\ FacesAtSensor \cap outcome.visible_set = {}
           /\ outcome.nan_dot_products = {}
    /\ (call.fn = "cone_loop" /\ outcome.done) =>
           /\ FacesAtSensor \cap RecordedFaces = {}
           /\ outcome.nan_angles = {}

\* the sensor sits on the centre of face 0: the count leaves the face out,
\* after a NaN dot product has been computed for it
C17_Witness ==
    /\ call.fn = "evaluate_visible_faces"
    /\ outcome.done
    /\ FacesAtSensor = {0}
    /\ 0 \notin outcome.visible_set
    /\ outcome.visible_faces = Cardinality(outcome.visible_set)
    /\ outcome.nan_dot_products = {0}

\* a face normal has been asked for three points on one line, or one point thrice
DegenerateFaceGiven ==
    /\ call.fn \in {"calculate_face_normal", "custom_calculate_face_normal"}
    /\ outcome.done
    /\ Cross(Sub(call.face_vertices[2], call.face_vertices[1]),
             Sub(call.face_vertices[3], call.face_vertices[1])) = <<0, 0, 0>>

\* C18: the face-normal computation is guarded: for collinear or coincident
\* vertices it reports a degenerate-face error and does not divide by zero
\* and return an undefined normal.
C18_DegenerateFaceReported ==
    DegenerateFaceGiven => outcome.raised

\* three points on one line: the normal that comes back is NaN
C18_Witness ==
    /\ DegenerateFaceGiven
    /\ call.face_vertices[1] # call.face_vertices[2]
    /\ ~outcome.raised
    /\ IsNaNVector(outcome.normal)

\* C19: every angle computation hands arccos a dot product clamped to
\* [-1, 1], in back-face mode and in cone mode; arccos receives an unclamped
\* value on no path.
C19_ArccosInputClamped ==
    (call.fn = "angle" /\ outcome.done /\ ~outcome.skipped) =>
        (outcome.arccos_input >= -Scale /\ outcome.arccos_input <= Scale)

\* calculate_angle clamps a dot product that rounding has carried above 1
C19_Witness ==
    /\ call.fn = "angle"
    /\ outcome.done
    /\ call.site = "calculate_angle"
    /\ call.vec1 = call.vec2
    /\ call.rounding = 1
    /\ outcome.arccos_input = Scale
    /\ outcome.angle = Finite(0)

\* ------------------------------------------- the slider-driven viewer
\* C20: the stored distance and angle records are recomputed in full on every
\* evaluation: after the first plot and any number of update_sensor_position
\* calls they are exactly the records of the most recent evaluation.
C20_RecordsAreLastEvaluation ==
    /\ chart_distances =
           DistanceColumn(ChartRecords(chart_sensor_position, chart_rotation_matrix))
    /\ chart_angles =
           AngleColumn(ChartRecords(chart_sensor_position, chart_rotation_matrix))

\* one slider move after the first plot: the lists hold the records of both
\* evaluations, the six of the first plot in front
C20_Witness ==
    /\ chart_updates = 1
    /\ chart_sensor_position = <<-8 * Scale, 0, 0>>
    /\ Len(chart_distances) = 12
    /\ Len(ChartRecords(chart_sensor_position, chart_rotation_matrix)) = 6

\* ------------------------------------------------ the search, continued
\* the norm of p is the sphere radius, to within the rounding of the fixed
\* point (one part in 500 of the radius)
OnSphere(p) ==
    /\ (Norm(p) - sphere_radius * Scale) * 500 <= sphere_radius * Scale
    /\ (sphere_radius * Scale - Norm(p)) * 500 <= sphere_radius * Scale

\* C21: every candidate position held in the search pool at any time, and
\* the position finally returned, lies on the sphere of radius 10: each
\* perturbed child is projected onto the sphere before it is evaluated or stored.
C21_PoolOnSphere ==
    /\ \A i \in 1..Len(candidate_positions) : OnSphere(candidate_positions[i].position)
    /\ \A i \in 1..Len(new_positions) : OnSphere(new_positions[i].position)
    /\ pc = "done" => OnSphere(best_position)

\* a run has returned a position other than the initial one, out of a full pool
C21_Witness ==
    /\ pc = "done"
    /\ best_position # initial_position
    /\ Len(candidate_positions) = num_candidates_to_keep
    /\ OnSphere(best_position)

\* ------------------------------------------------ the sensor on the x axis
\* the back-face evaluation of the sensor at (8, 0, 0) has returned
XAxisSensorEvaluated ==
    /\ call.fn = "evaluate_visible_faces"
    /\ call.sensor_position = <<sensor_distance * Scale, 0, 0>>
    /\ outcome.done

\* C22: for the fixed icosahedron, the sensor at (8, 0, 0) evaluated in
\* back-face mode reports a visible-face set that is not empty, and on every
\* evaluation its size is the one value fixed by the mesh geometry, six.
C22_XAxisSensorSeesSixFaces ==
    XAxisSensorEvaluated =>
        /\ ~outcome.raised
        /\ outcome.visible_set # {}
        /\ outcome.visible_faces = 6
        /\ Cardinality(outcome.visible_set) = 6
        /\ outcome.nan_dot_products = {}

\* the evaluation at (8, 0, 0) has returned its six faces
C22_Witness ==
    /\ XAxisSensorEvaluated
    /\ outcome.visible_faces = 6

\* the last child appended to new_positions carries the count of its position
LastChildEvaluated ==
    new_positions # <<>> =>
        new_positions[Len(new_positions)].visible_faces =
            evaluate_visible_faces(new_positions[Len(new_positions)].position)

\* C25: in each iteration exactly K = 5 children are generated and evaluated
\* for every candidate held at the start of the iteration, so the merged pool
\* before truncation has 6 times the held count; the pool holds 1 candidate
\* before the first iteration ends, 6 after iteration 1 and 10 after every
\* later iteration, and it is never empty once it has been started.
C25_ChildrenPerCandidate ==
    /\ [](pc = "generate" =>
            /\ child_idx \in 0..(children_per_candidate - 1)
            /\ parent_idx \in 1..(Len(candidate_positions) + 1)
            /\ Len(new_positions) = children_per_candidate * (parent_idx - 1) + child_idx)
    /\ [](LastChildEvaluated)
    /\ []((pc = "generate" /\ parent_idx > Len(candidate_positions)) =>
            Len(candidate_positions \o new_positions) = 6 * Len(candidate_positions))
    /\ [][iteration' = iteration + 1 =>
            Len(candidate_positions') + Len(dropped') = 6 * Len(candidate_positions)]_vars
    /\ [](pc # "start" => candidate_positions # <<>>)
    /\ []((pc # "start" /\ iteration = 0) => Len(candidate_positions) = 1)
    /\ [](iteration = 1 => Len(candidate_positions) = 6)
    /\ [](iteration >= 2 => Len(candidate_positions) = 10)

\* the third iteration is about to merge: 10 candidates held, 50 children made
C25_Witness ==
    /\ pc = "generate"
    /\ iteration = 2
    /\ Len(candidate_positions) = 10
    /\ parent_idx = 11
    /\ Len(new_positions) = 50

\* the highest count among the candidates of a list, at least `floor`
MaxCountFrom(pool, floor) ==
    IF \E i \in 1..Len(pool) : pool[i].visible_faces > floor
    THEN CHOOSE c \in {pool[i].visible_faces : i \in 1..Len(pool)} :
             \A i \in 1..Len(pool) : pool[i].visible_faces <= c
    ELSE floor

\* no candidate evaluated so far has a higher count than first_best, the
\* record of the highest count evaluated during the run
NoneAboveFirstBest ==
    MaxCountFrom(candidate_positions \o new_positions \o dropped, 0) <= first_best.visible_faces

\* the latest truncation cut off a candidate holding the best count seen so far
BestCountCutOff ==
    \E d \in 1..Len(dropped) : dropped[d].visible_faces = first_best.visible_faces

\* the returned count is the maximum over everything evaluated, and the
\* first candidate evaluated with that maximum is never cut off
ReturnedCountIsMaximum ==
    /\ [](PoolStarted => NoneAboveFirstBest)
    /\ [](PoolStarted =>
            MaxCountFrom(candidate_positions, 0) = HeadCount(candidate_positions))
    /\ []((PoolStarted /\ new_positions = <<>>) =>
            HeadCount(candidate_positions) = first_best.visible_faces)
    /\ [](pc = "done" => evaluate_visible_faces(best_position) = first_best.visible_faces)
    /\ [](\A d \in 1..Len(dropped) : dropped[d] # first_best)
    /\ [][(PoolStarted /\ candidate_positions' # <<>>) =>
            \E k \in 1..Len(candidate_positions' \o new_positions') :
                (candidate_positions' \o new_positions')[k] = first_best']_vars

\* C27 (as stated): the count of the returned candidate equals the maximum
\* count over all candidates evaluated during the run, and truncation to the
\* beam width never discards a candidate whose count is the best seen so far.
C27_NoBestCountDiscarded ==
    /\ ReturnedCountIsMaximum
    /\ [](~BestCountCutOff)

\* C27 (amended): the count of the returned candidate equals the maximum
\* count over all candidates evaluated during the run; truncation never
\* discards the first candidate evaluated with the best count seen so far,
\* but it may discard later candidates that tie with it.
C27_FirstBestNeverDiscarded ==
    /\ ReturnedCountIsMaximum
    /\ [](BestCountCutOff => HeadCount(candidate_positions) = first_best.visible_faces)

\* a truncation has cut off candidates that tie with the best count seen so
\* far, a count higher than that of the initial position, and kept the head
C27_Witness ==
    /\ BestCountCutOff
    /\ first_best.visible_faces > evaluate_visible_faces(initial_position)
    /\ candidate_positions[1] = first_best
    /\ new_positions = <<>>

\* ------------------------------------------------ the rig, continued
\* the number of table rows the pass has appended for sensor s
RowsOfSensor(s) == Cardinality({i \in 1..Len(sensor_indices) : sensor_indices[i] = s})

ScoreWith(f) == CoverageScore(sc_actual \cup {f}, sc_expected_map, sc_key).value

\* C29: for all actual and expected face sets the coverage score lies in
\* [0, 1] and depends only on the intersection of the two sets and on the
\* size of the expected set: adding a face to the actual set never lowers
\* it, and a face outside the expected set does not change it.
C29_ScoreBoundedAndMonotone ==
    sc_score # NotComputed =>
        /\ ~sc_score.raised
        /\ sc_score.value >= 0
        /\ sc_score.value <= Scale
        /\ sc_score.value =
               Div(Cardinality(sc_actual \cap ScExpected) * Scale, Max(Cardinality(ScExpected), 1))
        /\ sc_score = ScoreOfSets(sc_actual \cap ScExpected, ScExpected)
        /\ \A f \in 0..MaxFace :
               /\ ScoreWith(f) >= sc_score.value
               /\ f \notin ScExpected => ScoreWith(f) = sc_score.value
               /\ (f \in ScExpected /\ f \notin sc_actual) => ScoreWith(f) > sc_score.value

\* a score strictly between 0 and 1 has been computed for an actual set that
\* holds a face outside the expected set and misses an expected face
C29_Witness ==
    /\ sc_score # NotComputed
    /\ sc_score.value > 0
    /\ sc_score.value < Scale
    /\ sc_actual \ ScExpected # {}
    /\ ScExpected \ sc_actual # {}

\* ------------------------------------------------ the mesh, continued
\* the directed edges of one face, in the order its corners are listed
DirectedEdgesOf(face) == {<<face[1], face[2]>>, <<face[2], face[3]>>, <<face[3], face[1]>>}

\* the faces that hold the directed edge from a to b
FacesWithDirectedEdge(faces, a, b) ==
    {i \in 1..Len(faces) : <<a, b>> \in DirectedEdgesOf(faces[i])}

\* the faces that vertex v is a corner of
FacesAtVertex(faces, v) == {i \in 1..Len(faces) : \E c \in 1..3 : faces[i][c] = v}

\* C30: the 20-face table is wound consistently: every directed edge (a, b)
\* of a face occurs in exactly one face and its reverse (b, a) in exactly one
\* other face, every face has three distinct vertices, and every vertex
\* belongs to exactly 5 faces.
C30_ConsistentWinding ==
    mesh # NoMesh =>
        /\ Len(mesh.faces) = 20
        /\ \A i \in 1..Len(mesh.faces) :
               /\ Cardinality({mesh.faces[i][c] : c \in 1..3}) = 3
               /\ \A e \in DirectedEdgesOf(mesh.faces[i]) :
                      /\ FacesWithDirectedEdge(mesh.faces, e[1], e[2]) = {i}
                      /\ Cardinality(FacesWithDirectedEdge(mesh.faces, e[2], e[1])) = 1
                      /\ i \notin FacesWithDirectedEdge(mesh.faces, e[2], e[1])
        /\ \A v \in 0..(Len(mesh.vertices) - 1) :
               Cardinality(FacesAtVertex(mesh.faces, v)) = 5

\* a pass has fetched the mesh, in which the edge from 0 to 11 belongs to the
\* first face and the edge from 11 to 0 to the fifth
C30_Witness ==
    /\ mesh # NoMesh
    /\ FacesWithDirectedEdge(mesh.faces, 0, 11) = {1}
    /\ FacesWithDirectedEdge(mesh.faces, 11, 0) = {5}
    /\ Cardinality(FacesAtVertex(mesh.faces, 0)) = 5

\* ------------------------------------------------ the reentrancy flag
\* C23: a call to update_scene that arrives while _updating is True returns
\* at once and changes nothing: the figure lists, the table lists, the CSV
\* file and the flag itself stay as they are. The flag is therefore set for
\* as long as a body is in progress, every call arriving meanwhile returns
\* early, and at most one body is ever in progress.
C23_EarlyReturnChangesNothing ==
    /\ [][(~returned_early /\ returned_early') =>
            /\ updating /\ updating'
            /\ UNCHANGED <<now, scene_pc, sensor_idx, mesh, visible_counts, sensor_face_data,
                           orientations, sensor_status, scores, visible_faces, distances,
                           angles, sensor_indices, csv_data, csv_file, prev_csv_file,
                           last_exit>>]_vars
    /\ [](scene_pc # "idle" => updating)
    /\ [](returned_early => (updating /\ scene_pc # "idle"))
    /\ [][(~updating /\ updating') => (scene_pc = "idle" /\ scene_pc' = "sensors")]_vars

\* a call has returned early while the second pass was half way through its
\* sensors, the file of the first pass still in place
C23_Witness ==
    /\ returned_early
    /\ updating
    /\ scene_pc = "sensors"
    /\ sensor_idx = 3
    /\ csv_file # <<>>

\* a body in progress has a next step to take: another sensor, or the tail
BodyCanStep ==
    \/ scene_pc = "sensors" /\ sensor_idx < NumSensors
    \/ scene_pc = "publish"

\* C24: whenever a body of update_scene that set _updating to True ends, by
\* its return or by an exception raised inside it, _updating is False again;
\* a body in progress is never stuck, so the refresh is never locked out for
\* good, and whenever no update is in progress the flag test of the next
\* timer call lets the body run.
C24_FlagClearedOnEveryExit ==
    /\ [][(scene_pc # "idle" /\ scene_pc' = "idle") =>
            (updating /\ ~updating' /\ last_exit' \in {"normal", "exception"})]_vars
    /\ [](scene_pc = "idle" => ~updating)
    /\ [](scene_pc # "idle" => BodyCanStep)
    /\ [](last_exit # "none" => (scene_pc = "idle" /\ ~updating))

\* a body has ended by an exception after a pass that had written its file:
\* the flag is clear and the file is still the one of the earlier pass
C24_Witness ==
    /\ last_exit = "exception"
    /\ scene_pc = "idle"
    /\ ~updating
    /\ csv_file # <<>>

\* ------------------------------------------------ the tables
\* update_table has been called and has ended
TableBuilt == call.fn = "update_table" /\ outcome.done

\* C26 (as stated): in the tables update_table builds from the flat lists,
\* the Sensor column of every row names the sensor whose visibility pass
\* produced that row, for any numbers of visible faces per sensor, and the
\* sensor index derived from the row number is always within 0..5.
C26_RowsNameTheirSensor ==
    TableBuilt =>
        /\ ~outcome.raised
        /\ Len(outcome.sensor_column) = Len(outcome.producers)
        /\ \A r \in 1..Len(outcome.sensor_column) :
               /\ outcome.sensor_column[r] = outcome.producers[r]
               /\ outcome.sensor_column[r] \in 0..5

\* the table of Testing_with_Euler_angles.py for the rig itself, six faces
\* per sensor: row 7 holds a face of the second sensor and is marked as the
\* first sensor's
C26_Witness ==
    /\ TableBuilt
    /\ call.variant = "Testing_with_Euler_angles"
    /\ call.counts = RigBackFaceCounts
    /\ Len(outcome.sensor_column) = 36
    /\ outcome.producers[7] = 1
    /\ outcome.sensor_column[7] = 0
====
